---- MODULE Spec2Model ----
(***************************************************************************)
(* The parser phase of the Tarjuman compiler front end: the recursive-     *)
(* descent recognizer with its symbol table and type checker, as the three *)
(* programs semantic_analyser.c, sematic_analyser.c and syntax_analyser.c  *)
(* implement it.  The variable "variant" says which program is running.    *)
(*                                                                         *)
(* toks[] is read-only once load_tokens has run, and the parser reads it   *)
(* left to right through LA()/consume(), one token at a time (plus the     *)
(* one-token peek of global_decl_list).  The model therefore keeps, of     *)
(* toks[], the part the parser is looking at: toks = <<toks[pos]>>, or     *)
(* <<toks[pos], toks[pos+1]>> after the peek, and a consumed token is      *)
(* dropped.  The window holds the EOF sentinel of LA() when pos = ntok.    *)
(* The token file is one of the Openings (fixed token sequences, "any"     *)
(* being the empty one) followed by at most Free[input] arbitrary tokens:  *)
(* "ahead" is the part of the opening beyond the window, and each          *)
(* arbitrary token is drawn when the parser first reaches it.              *)
(***************************************************************************)
EXTENDS Integers, Sequences, FiniteSets, TLC

VARIABLES
  variant,      \* which program runs: "semantic" | "sematic" | "syntax"
  input,        \* the name of the token file's opening
  ahead,        \* the opening's tokens beyond the window
  more,         \* how many arbitrary tokens may still follow
  toks,         \* the window of toks[] at pos (see above)
  pos,          \* static int pos
  prevline,     \* toks[pos-1].line, read by sematic_analyser.c's add_symbol only
  symtab,       \* symtab[0..nsym-1], as a sequence; nsym = Len(symtab)
  cur_scope,    \* static char cur_scope[64]
  error_count,  \* static int error_count
  out,          \* the "Line <n>: <msg>" lines the last step wrote to stderr
  stack,        \* the call stack: the labels still to run, innermost first
  typestr,      \* declaration(typestr) and its callees
  id,           \* init_declarator: Tok id
  arrsz,        \* init_declarator: int arrsz
  pty,          \* function_def: char pty[16]
  pid,          \* function_def: Tok pid
  op,           \* expression_if_any: Tok op
  cur_type,     \* expression_if_any: int cur_type / the caller's out_type
  ret,          \* expression_if_any's return value (0 | 1), -1 when not set
  skipline,     \* skip_line_tokens(line): the line being skipped, -1 when idle
  \* the tokenizer, lexical_analyser.c
  charset,      \* the characters the source file is written in: "general" | "words"
  pc,           \* where the tokenizer is in main and its callees
  pushback,     \* the characters given back with ungetc, the next to read first
  unread,       \* how many characters of the source file may still follow
  last,         \* the character the last getc_track returned
  filenl,       \* how many newline characters fgetc has taken from the source file
  tokline,      \* the source line of the character main read last
  eqrun,        \* how many '=' characters in a row the tokenizer has scanned
  line_no,      \* static int line_no
  start_line,   \* int start_line of the comment or literal being scanned
  buf,          \* char buf[] of the token being scanned
  text,         \* the characters read for the token being scanned, after its opening quote
  prev,         \* skip_ws_and_comments: int prev
  rows,         \* how many rows emit() has written to tokens.txt
  emitted,      \* the rows the last step wrote to tokens.txt
  stderr,       \* the "Line <n>: <msg>" lines the last tokenizer step wrote
  \* the token loaders: load_tokens, read_tokens
  tokfile,      \* the rows of tokens.txt below its header row, each the row's fields
  loaded,       \* toks[0..ntok-1] after loading tokens.txt with (TRUE) and without (FALSE) its header row
  written       \* the tokens emit() was called with to write the rows of tokens.txt

lexvars == <<charset, pc, pushback, unread, last, filenl, tokline, eqrun, line_no, start_line, buf, text, prev, rows, emitted, stderr>>

parservars == <<variant, input, ahead, more, toks, pos, prevline, symtab, cur_scope, error_count,
                out, stack, typestr, id, arrsz, pty, pid, op, cur_type, ret, skipline>>

loadvars == <<tokfile, loaded, written>>

vars == <<parservars, lexvars, loadvars>>

----------------------------------------------------------------------------
(* Bounds of the model *)

\* the arbitrary tokens that follow the opening of a token file
MaxTok == 5
\* source lines the tokens are spread over
MaxLine == 2

(* Program constants *)

\* #define MAXSYM, scaled down so that a full table is reached
MAXSYM == 4
TYPE_ERROR == 0
TYPE_INT == 1
TYPE_CHAR == 2
\* the line of sematic_analyser.c's and syntax_analyser.c's EOF sentinel
EOF_LINE == 999999

Variants == {"semantic", "sematic", "syntax"}

----------------------------------------------------------------------------
(* Tokens, as the tokenizer emits them (lexical_analyser.c, emit) *)

Names == {"x", "y"}
IntLexemes == {"2"}

Tok(k, lx, ln) == [token |-> k, lexeme |-> lx, line |-> ln]

FixedLexeme ==
  {<<"VOID", "void">>, <<"CHAR", "char">>, <<"INT", "int">>, <<"IF", "if">>,
   <<"ELSE", "else">>, <<"WHILE", "while">>, <<"FOR", "for">>,
   <<"MAIN", "main">>, <<"PLUS", "+">>, <<"MINUS", "-">>, <<"STAR", "*">>,
   <<"SLASH", "/">>, <<"GT", ">">>, <<"LT", "<">>, <<"EQ", "==">>,
   <<"ASSIGN", "=">>, <<"LPAREN", "(">>, <<"RPAREN", ")">>,
   <<"LBRACE", "{">>, <<"RBRACE", "}">>, <<"LBRACKET", "[">>,
   <<"RBRACKET", "]">>, <<"SEMICOLON", ";">>, <<"COMMA", ",">>}

TokensOnLine(ln) ==
  {Tok(f[1], f[2], ln) : f \in FixedLexeme}
    \cup {Tok("IDENTIFIER", n, ln) : n \in Names}
    \cup {Tok("INT_CONST", n, ln) : n \in IntLexemes}
    \cup {Tok("CHAR_CONST", "a", ln), Tok("STRING_CONST", "s", ln)}

\* LA()'s sentinel for pos >= ntok
EOF == Tok("EOF", "", IF variant = "semantic" THEN 0 ELSE EOF_LINE)

\* the arbitrary tokens that may follow a token of line ln, when n more may
\* come: the tokenizer's line numbers never decrease
Upcoming(n, ln) ==
  IF n = 0 THEN {EOF}
  ELSE {EOF} \cup UNION {TokensOnLine(l) : l \in ln..MaxLine}

\* a token of a fixed kind, an identifier, an integer and a character constant
K(k, ln) == Tok(k, (CHOOSE f \in FixedLexeme : f[1] = k)[2], ln)
Id(n, ln) == Tok("IDENTIFIER", n, ln)
Num(n, ln) == Tok("INT_CONST", n, ln)
Chr(ln) == Tok("CHAR_CONST", "a", ln)

\* int main ( void ) {
MainVoid(ln) ==
  <<K("INT", ln), K("MAIN", ln), K("LPAREN", ln), K("VOID", ln),
    K("RPAREN", ln), K("LBRACE", ln)>>

\* <type> <name> ;
Decl(ty, n, ln) == <<K(ty, ln), Id(n, ln), K("SEMICOLON", ln)>>

Opening(i) ==
  CASE i = "any" -> <<>>
    [] i = "main" -> MainVoid(1)
    [] i = "shadow" ->
         \* char x; char y; int main(int x) {
         Decl("CHAR", "x", 1) \o Decl("CHAR", "y", 1) \o
         <<K("INT", 1), K("MAIN", 1), K("LPAREN", 1), K("INT", 1),
           Id("x", 1), K("RPAREN", 1), K("LBRACE", 1)>>
    [] i = "ex_min" -> MainVoid(1) \o <<K("RBRACE", 1)>>
    [] i = "ex_dup" ->
         \* int x; int x; / int main(void) { }
         Decl("INT", "x", 1) \o Decl("INT", "x", 1) \o
         MainVoid(2) \o <<K("RBRACE", 2)>>
    [] i = "ex_mismatch" ->
         \* int x; char y; / int main(void) { / x = y + 1; / }
         Decl("INT", "x", 1) \o Decl("CHAR", "y", 1) \o MainVoid(2) \o
         <<Id("x", 3), K("ASSIGN", 3), Id("y", 3), K("PLUS", 3),
           Num("2", 3), K("SEMICOLON", 3), K("RBRACE", 4)>>
    [] i = "ex_shadow" ->
         \* char x; / int main(int x) { / x = 2; / }
         Decl("CHAR", "x", 1) \o
         <<K("INT", 2), K("MAIN", 2), K("LPAREN", 2), K("INT", 2),
           Id("x", 2), K("RPAREN", 2), K("LBRACE", 2),
           Id("x", 3), K("ASSIGN", 3), Num("2", 3), K("SEMICOLON", 3),
           K("RBRACE", 4)>>
    [] i = "ex_for" ->
         \* char y; / int main(void) { / for (y = y; y < y; y > 2) { } / }
         Decl("CHAR", "y", 1) \o MainVoid(2) \o
         <<K("FOR", 3), K("LPAREN", 3),
           Id("y", 3), K("ASSIGN", 3), Id("y", 3), K("SEMICOLON", 3),
           Id("y", 3), K("LT", 3), Id("y", 3), K("SEMICOLON", 3),
           Id("y", 3), K("GT", 3), Num("2", 3), K("RPAREN", 3),
           K("LBRACE", 3), K("RBRACE", 3), K("RBRACE", 4)>>
    [] i = "ex_empty" ->
         \* int main() { }
         <<K("INT", 1), K("MAIN", 1), K("LPAREN", 1), K("RPAREN", 1),
           K("LBRACE", 1), K("RBRACE", 1)>>
    [] i = "ex_valid" ->
         \* int x; char y; / int main(int y) {
         \* / for (x = 2; x < y; x = x + y) { ; }
         \* / if (x == 2) { int x; } else { } / while (x) { } / }
         Decl("INT", "x", 1) \o Decl("CHAR", "y", 1) \o
         <<K("INT", 2), K("MAIN", 2), K("LPAREN", 2), K("INT", 2),
           Id("y", 2), K("RPAREN", 2), K("LBRACE", 2),
           K("FOR", 3), K("LPAREN", 3),
           Id("x", 3), K("ASSIGN", 3), Num("2", 3), K("SEMICOLON", 3),
           Id("x", 3), K("LT", 3), Id("y", 3), K("SEMICOLON", 3),
           Id("x", 3), K("ASSIGN", 3), Id("x", 3), K("PLUS", 3), Id("y", 3),
           K("RPAREN", 3), K("LBRACE", 3), K("SEMICOLON", 3), K("RBRACE", 3),
           K("IF", 4), K("LPAREN", 4), Id("x", 4), K("EQ", 4), Num("2", 4),
           K("RPAREN", 4), K("LBRACE", 4), K("INT", 4), Id("x", 4),
           K("SEMICOLON", 4), K("RBRACE", 4), K("ELSE", 4), K("LBRACE", 4),
           K("RBRACE", 4),
           K("WHILE", 5), K("LPAREN", 5), Id("x", 5), K("RPAREN", 5),
           K("LBRACE", 5), K("RBRACE", 5), K("RBRACE", 6)>>
    [] i = "ex_fold" ->
         \* int x; char y; / int main(void) { / y < y + x / = / y; / }
         Decl("INT", "x", 1) \o Decl("CHAR", "y", 1) \o MainVoid(2) \o
         <<Id("y", 3), K("LT", 3), Id("y", 3), K("PLUS", 3), Id("x", 3),
           K("ASSIGN", 4), Id("y", 5), K("SEMICOLON", 5), K("RBRACE", 6)>>
    [] i = "ex_void" ->
         \* void v; / int main(void) { / while (v) { } / v = v + 2; / }
         Decl("VOID", "v", 1) \o MainVoid(2) \o
         <<K("WHILE", 3), K("LPAREN", 3), Id("v", 3), K("RPAREN", 3),
           K("LBRACE", 3), K("RBRACE", 3),
           Id("v", 4), K("ASSIGN", 4), Id("v", 4), K("PLUS", 4), Num("2", 4),
           K("SEMICOLON", 4), K("RBRACE", 5)>>
    [] i = "ex_while" ->
         \* char y; / int main(void) { / while (y) { } / }
         Decl("CHAR", "y", 1) \o MainVoid(2) \o
         <<K("WHILE", 3), K("LPAREN", 3), Id("y", 3), K("RPAREN", 3),
           K("LBRACE", 3), K("RBRACE", 3), K("RBRACE", 4)>>

\* the openings after which arbitrary tokens follow, and the whole files
Prefixes == {"any", "main", "shadow"}
Examples ==
  {"ex_min", "ex_dup", "ex_mismatch", "ex_shadow", "ex_for", "ex_while",
   "ex_empty", "ex_valid", "ex_fold", "ex_void"}
Free(i) ==
  CASE i = "main" -> MaxTok - 1
    [] i \in Prefixes -> MaxTok
    [] OTHER -> 0

\* atoi on the integer lexemes of the model
atoi(lx) == CASE lx = "2" -> 2 [] lx = "1" -> 1 [] lx = "0" -> 0 [] OTHER -> 0

----------------------------------------------------------------------------
(* Token helpers *)

LA == Head(toks)

\* the token at the index after the window's first, where pos < ntok
NextTok ==
  IF Len(toks) > 1 THEN {toks[2]}
  ELSE IF ahead # <<>> THEN {Head(ahead)}
  ELSE Upcoming(more, LA.line)

is_type_token(tk) == tk \in {"VOID", "CHAR", "INT"}

norm_type_token(tk) ==
  CASE tk = "VOID" -> "Void"
    [] tk = "CHAR" -> "Char"
    [] tk = "INT" -> "Int"
    [] OTHER -> "?"

\* a conversion that takes every type name but Int for Char
str_to_type_void_is_char(s) ==
  CASE s = "Int" -> TYPE_INT
    [] OTHER -> TYPE_CHAR

str_to_type(s) ==
  CASE s = "Int" -> TYPE_INT
    [] s = "Char" -> TYPE_CHAR
    [] OTHER -> TYPE_ERROR

const_token_type(t) ==
  CASE t.token = "INT_CONST" -> TYPE_INT
    [] t.token = "CHAR_CONST" -> TYPE_CHAR
    [] OTHER -> TYPE_ERROR

is_operator(tk) ==
  tk \in {"PLUS", "MINUS", "STAR", "SLASH", "GT", "LT", "EQ", "ASSIGN"}

Diag(ln, m) == [line |-> ln, msg |-> m]

----------------------------------------------------------------------------
(* Symbol table *)

Sym(n, t, s, a) == [lexeme |-> n, type |-> t, scope |-> s, array_size |-> a]

DupMsg == "Multiple declarations of same identifier."
MismatchMsg == "Type mismatch in statement or expression."
UndeclaredMsg == "Undeclared identifier."
IntExpectedMsg == "Integer expected in conditional expression."
OperandMsg == "Identifier or integer constant expected"

\* the entries of tab with this name and scope, by index
Entries(tab, name, scope) ==
  {i \in 1..Len(tab) : tab[i].lexeme = name /\ tab[i].scope = scope}

Least(S) == CHOOSE i \in S : \A j \in S : i <= j

\* an insert that puts the new entry in front of the others
add_symbol_in_front(tab, name, type, scope, arrsz_, line) ==
  IF Entries(tab, name, scope) # {}
  THEN [symtab |-> tab, out |-> <<Diag(line, DupMsg)>>]
  ELSE IF Len(tab) >= MAXSYM
  THEN [symtab |-> tab, out |-> <<>>]
  ELSE [symtab |-> <<Sym(name, type, scope, arrsz_)>> \o tab, out |-> <<>>]

\* an insert without the capacity check
add_symbol_no_capacity(tab, name, type, scope, arrsz_, line) ==
  IF Entries(tab, name, scope) # {}
  THEN [symtab |-> tab, out |-> <<Diag(line, DupMsg)>>]
  ELSE [symtab |-> Append(tab, Sym(name, type, scope, arrsz_)), out |-> <<>>]

\* semantic_analyser.c: the duplicate check, then the capacity check
add_symbol(tab, name, type, scope, arrsz_, line) ==
  IF Entries(tab, name, scope) # {}
  THEN [symtab |-> tab, out |-> <<Diag(line, DupMsg)>>]
  ELSE IF Len(tab) >= MAXSYM
  THEN [symtab |-> tab, out |-> <<>>]
  ELSE [symtab |-> Append(tab, Sym(name, type, scope, arrsz_)), out |-> <<>>]

\* sematic_analyser.c: the capacity check first; the diagnostic is tagged
\* with the line of the last consumed token (pline = toks[pos-1].line, or 0)
add_symbol_sematic(tab, name, type, scope, arrsz_, pline) ==
  IF Len(tab) >= MAXSYM
  THEN [symtab |-> tab, out |-> <<>>]
  ELSE IF Entries(tab, name, scope) # {}
  THEN [symtab |-> tab, out |-> <<Diag(pline, DupMsg)>>]
  ELSE [symtab |-> Append(tab, Sym(name, type, scope, arrsz_)), out |-> <<>>]

\* syntax_analyser.c: no duplicate check
add_symbol_syntax(tab, name, type, scope, arrsz_) ==
  IF Len(tab) >= MAXSYM
  THEN [symtab |-> tab, out |-> <<>>]
  ELSE [symtab |-> Append(tab, Sym(name, type, scope, arrsz_)), out |-> <<>>]

\* the add_symbol of the running program; line is the caller's id.line
AddSymbol(name, type, scope, arrsz_, line) ==
  CASE variant = "semantic" -> add_symbol(symtab, name, type, scope, arrsz_, line)
    [] variant = "sematic" ->
         add_symbol_sematic(symtab, name, type, scope, arrsz_,
                            IF pos > 0 THEN prevline ELSE 0)
    [] OTHER -> add_symbol_syntax(symtab, name, type, scope, arrsz_)

\* a lookup that searches Global before the current scope
lookup_symbol_global_first(tab, scope, name) ==
  IF Entries(tab, name, "Global") # {}
  THEN Least(Entries(tab, name, "Global"))
  ELSE IF Entries(tab, name, scope) # {} THEN Least(Entries(tab, name, scope))
  ELSE 0

\* the index of the entry lookup_symbol returns, 0 for NULL
lookup_symbol(tab, scope, name) ==
  IF Entries(tab, name, scope) # {} THEN Least(Entries(tab, name, scope))
  ELSE IF Entries(tab, name, "Global") # {}
  THEN Least(Entries(tab, name, "Global"))
  ELSE 0

----------------------------------------------------------------------------
(* Type checker *)

\* a checker that compares the operand types before it looks for Error
apply_binary_op_no_absorb(o, lhs_type, rhs_type, line) ==
  IF ~is_operator(o) THEN [type |-> TYPE_ERROR, out |-> <<>>]
  ELSE IF lhs_type # rhs_type
  THEN [type |-> TYPE_ERROR, out |-> <<Diag(line, MismatchMsg)>>]
  ELSE [type |-> IF o \in {"LT", "GT", "EQ"} /\ lhs_type # TYPE_ERROR
                 THEN TYPE_INT ELSE lhs_type,
        out |-> <<>>]

\* a checker for which every well-typed operation has type Int
apply_binary_op_always_int(o, lhs_type, rhs_type, line) ==
  IF ~is_operator(o) \/ lhs_type = TYPE_ERROR \/ rhs_type = TYPE_ERROR
  THEN [type |-> TYPE_ERROR, out |-> <<>>]
  ELSE IF lhs_type # rhs_type
  THEN [type |-> TYPE_ERROR, out |-> <<Diag(line, MismatchMsg)>>]
  ELSE [type |-> TYPE_INT, out |-> <<>>]

\* a checker for which every well-typed operation has its operands' type
apply_binary_op_common_type(o, lhs_type, rhs_type, line) ==
  IF ~is_operator(o) \/ lhs_type = TYPE_ERROR \/ rhs_type = TYPE_ERROR
  THEN [type |-> TYPE_ERROR, out |-> <<>>]
  ELSE IF lhs_type # rhs_type
  THEN [type |-> TYPE_ERROR, out |-> <<Diag(line, MismatchMsg)>>]
  ELSE [type |-> lhs_type, out |-> <<>>]

apply_binary_op(o, lhs_type, rhs_type, line) ==
  IF o = "ASSIGN" THEN
    IF lhs_type = TYPE_ERROR \/ rhs_type = TYPE_ERROR
    THEN [type |-> TYPE_ERROR, out |-> <<>>]
    ELSE IF lhs_type # rhs_type
    THEN [type |-> TYPE_ERROR, out |-> <<Diag(line, MismatchMsg)>>]
    ELSE [type |-> lhs_type, out |-> <<>>]
  ELSE IF o \in {"PLUS", "MINUS", "STAR", "SLASH"} THEN
    IF lhs_type = TYPE_ERROR \/ rhs_type = TYPE_ERROR
    THEN [type |-> TYPE_ERROR, out |-> <<>>]
    ELSE IF lhs_type # rhs_type
    THEN [type |-> TYPE_ERROR, out |-> <<Diag(line, MismatchMsg)>>]
    ELSE [type |-> lhs_type, out |-> <<>>]
  ELSE IF o \in {"LT", "GT", "EQ"} THEN
    IF lhs_type = TYPE_ERROR \/ rhs_type = TYPE_ERROR
    THEN [type |-> TYPE_ERROR, out |-> <<>>]
    ELSE IF lhs_type # rhs_type
    THEN [type |-> TYPE_ERROR, out |-> <<Diag(line, MismatchMsg)>>]
    ELSE [type |-> TYPE_INT, out |-> <<>>]
  ELSE [type |-> TYPE_ERROR, out |-> <<>>]

\* an operand evaluation that does not report an unresolved identifier
operand_no_report(t) ==
  IF t.token = "IDENTIFIER" THEN
    LET s == lookup_symbol(symtab, cur_scope, t.lexeme) IN
      IF s = 0
      THEN [type |-> TYPE_ERROR, out |-> <<>>]
      ELSE [type |-> str_to_type(symtab[s].type), out |-> <<>>]
  ELSE [type |-> const_token_type(t), out |-> <<>>]

\* the type of an operand token and the diagnostic it raises
\* (expression_if_any, both operand positions)
operand(t) ==
  IF t.token = "IDENTIFIER" THEN
    LET s == lookup_symbol(symtab, cur_scope, t.lexeme) IN
      IF s = 0
      THEN [type |-> TYPE_ERROR, out |-> <<Diag(t.line, UndeclaredMsg)>>]
      ELSE [type |-> str_to_type(symtab[s].type), out |-> <<>>]
  ELSE [type |-> const_token_type(t), out |-> <<>>]

is_operand(tk) == tk \in {"IDENTIFIER", "INT_CONST", "CHAR_CONST"}

----------------------------------------------------------------------------
(* The state after load_tokens *)

NoTok == Tok("", "", 0)

\* the tokenizer has run and written tokens.txt before a parser starts
LexIdle ==
  /\ charset = "general"
  /\ pc = "done"
  /\ pushback = <<>>
  /\ unread = 0
  /\ last = ""
  /\ filenl = 0
  /\ tokline = 1
  /\ eqrun = 0
  /\ line_no = 1
  /\ start_line = 1
  /\ buf = <<>>
  /\ text = <<>>
  /\ prev = ""
  /\ rows = 0
  /\ emitted = <<>>
  /\ stderr = <<>>

\* a loader that has not run yet
NotLoaded == [ran |-> FALSE, toks |-> <<>>]

\* the rows of tokens.txt are not looked at while a parser's rules or the tokenizer run
LoadIdle ==
  /\ tokfile = <<>>
  /\ written = <<>>
  /\ loaded = [h \in BOOLEAN |-> NotLoaded]

Init ==
  /\ variant \in Variants
  /\ input \in Prefixes \cup Examples
  /\ pos = 0
  /\ IF Opening(input) # <<>>
     THEN /\ toks = <<Head(Opening(input))>>
          /\ ahead = Tail(Opening(input))
          /\ more = Free(input)
     ELSE /\ toks \in {<<t>> : t \in Upcoming(Free(input), 1)}
          /\ ahead = <<>>
          /\ more = IF LA.token = "EOF" THEN 0 ELSE Free(input) - 1
  /\ prevline = 0
  /\ symtab = <<>>
  /\ cur_scope = "Global"
  /\ error_count = 0
  /\ out = <<>>
  /\ stack = <<"program", "write_symbol_table">>
  /\ typestr = ""
  /\ id = NoTok
  /\ arrsz = 0
  /\ pty = ""
  /\ pid = NoTok
  /\ op = NoTok
  /\ cur_type = TYPE_ERROR
  /\ ret = -1
  /\ skipline = -1
  /\ LexIdle
  /\ LoadIdle

----------------------------------------------------------------------------
(* Steps common to the rule functions *)

Frame(l) == stack # <<>> /\ Head(stack) = l

\* return to / continue with the labels ls
Goto(ls) == stack' = ls \o Tail(stack)

\* the token file gives t as the token after the window
Reveal(t) ==
  IF Len(toks) > 1 THEN UNCHANGED <<ahead, more>>
  ELSE IF ahead # <<>> THEN ahead' = Tail(ahead) /\ UNCHANGED more
  ELSE /\ more' = IF t.token = "EOF" THEN 0 ELSE more - 1
       /\ UNCHANGED ahead

\* consume(): pos++ onto token t
Consume(t) ==
  /\ Reveal(t)
  /\ toks' = <<t>>
  /\ pos' = pos + 1
  /\ prevline' = IF variant = "sematic" THEN LA.line ELSE prevline

Stay == UNCHANGED <<ahead, more, toks, pos, prevline>>

Quiet == out' = <<>> /\ UNCHANGED error_count /\ UNCHANGED <<lexvars, loadvars>>

\* a report that prints and restarts the count from the printed diagnostics
Report_restarts(ds) == out' = ds /\ error_count' = Len(ds) /\ UNCHANGED <<lexvars, loadvars>>

\* semantic_error for each diagnostic of ds: fprintf and error_count++
Report(ds) == out' = ds /\ error_count' = error_count + Len(ds) /\ UNCHANGED <<lexvars, loadvars>>

\* syn_error(msg), then the caller goes on with the labels ls
syn_error(msg, ls) ==
  /\ Report(<<Diag(LA.line, msg)>>)
  /\ skipline' = LA.line
  /\ stack' = <<"skip_line_tokens">> \o ls \o Tail(stack)
  /\ Stay

KeepDecl == UNCHANGED <<typestr, id, arrsz>>
KeepParam == UNCHANGED <<pty, pid>>
KeepExpr == UNCHANGED <<op, cur_type, ret>>
KeepTable == UNCHANGED <<variant, input, symtab, cur_scope>>
KeepData == KeepTable /\ KeepDecl /\ KeepParam /\ KeepExpr

\* a skip loop that stops one token after the line has changed
skip_line_tokens_one_more ==
  /\ Frame("skip_line_tokens")
  /\ IF LA.token # "EOF"
     THEN /\ \E t \in NextTok : Consume(t)
          /\ IF LA.line = skipline
             THEN UNCHANGED <<stack, skipline>>
             ELSE Goto(<<>>) /\ skipline' = -1
     ELSE /\ Stay
          /\ Goto(<<>>)
          /\ skipline' = -1
  /\ Quiet
  /\ KeepData

\* one iteration of skip_line_tokens' loop, or its exit
skip_line_tokens ==
  /\ Frame("skip_line_tokens")
  /\ IF LA.token # "EOF" /\ LA.line = skipline
     THEN /\ \E t \in NextTok : Consume(t)
          /\ UNCHANGED <<stack, skipline>>
     ELSE /\ Stay
          /\ Goto(<<>>)
          /\ skipline' = -1
  /\ Quiet
  /\ KeepData

\* if (!match(kind, NULL)) syn_error(msg); then go on with next
MustMatch(l, kind, msg, next) ==
  /\ Frame(l)
  /\ IF LA.token = kind
     THEN /\ \E t \in NextTok : Consume(t)
          /\ Quiet
          /\ Goto(next)
          /\ UNCHANGED skipline
     ELSE syn_error(msg, next)
  /\ KeepData

\* if (!expression_if_any(&type)) syn_error(...); and, for a condition,
\* else if (type != TYPE_INT && type != TYPE_ERROR) semantic_error(...)
\* a condition check that does not let Error pass
AfterExpression_rejects_error(l, is_cond, next) ==
  /\ Frame(l)
  /\ IF ret = 0
     THEN syn_error(OperandMsg, next)
     ELSE /\ IF is_cond /\ variant # "syntax" /\ cur_type # TYPE_INT
             THEN Report(<<Diag(LA.line, IntExpectedMsg)>>)
             ELSE Quiet
          /\ Goto(next)
          /\ Stay
          /\ UNCHANGED skipline
  /\ ret' = -1
  /\ cur_type' = TYPE_ERROR
  /\ UNCHANGED op
  /\ KeepTable /\ KeepDecl /\ KeepParam

\* a check applied to every expression, condition or not
AfterExpression_every_clause(l, is_cond, next) ==
  /\ Frame(l)
  /\ IF ret = 0
     THEN syn_error(OperandMsg, next)
     ELSE /\ IF variant # "syntax"
                /\ cur_type # TYPE_INT /\ cur_type # TYPE_ERROR
             THEN Report(<<Diag(LA.line, IntExpectedMsg)>>)
             ELSE Quiet
          /\ Goto(next)
          /\ Stay
          /\ UNCHANGED skipline
  /\ ret' = -1
  /\ cur_type' = TYPE_ERROR
  /\ UNCHANGED op
  /\ KeepTable /\ KeepDecl /\ KeepParam

\* what an expression's caller does with its result: syn_error when there
\* was no expression, the Integer check when the expression is a condition
AfterExpression(l, is_cond, next) ==
  /\ Frame(l)
  /\ IF ret = 0
     THEN syn_error(OperandMsg, next)
     ELSE /\ IF is_cond /\ variant # "syntax"
                /\ cur_type # TYPE_INT /\ cur_type # TYPE_ERROR
             THEN Report(<<Diag(LA.line, IntExpectedMsg)>>)
             ELSE Quiet
          /\ Goto(next)
          /\ Stay
          /\ UNCHANGED skipline
  /\ ret' = -1
  /\ cur_type' = TYPE_ERROR
  /\ UNCHANGED op
  /\ KeepTable /\ KeepDecl /\ KeepParam

----------------------------------------------------------------------------
(* program, global_decl_list and the declarations *)

\* declaration(typestr): init_declarator_list(typestr), then ';'
Declaration == <<"init_declarator", "init_declarator_list", "declaration_semi">>

program ==
  /\ Frame("program")
  /\ Goto(<<"global_decl_list", "program_type">>)
  /\ Stay /\ Quiet /\ KeepData /\ UNCHANGED skipline

\* a loop that goes round again on TYPE MAIN instead of returning
global_decl_list_no_return ==
  /\ Frame("global_decl_list")
  /\ IF ~is_type_token(LA.token)
     THEN /\ Goto(<<>>)
          /\ Stay
          /\ UNCHANGED typestr
     ELSE \E t2 \in NextTok :
            IF t2.token = "MAIN"
            THEN /\ Reveal(t2)
                 /\ toks' = <<LA, t2>>
                 /\ UNCHANGED <<pos, prevline, typestr, stack>>
            ELSE /\ Consume(t2)
                 /\ typestr' = norm_type_token(LA.token)
                 /\ stack' = Declaration \o stack
  /\ Quiet
  /\ UNCHANGED <<id, arrsz, skipline>>
  /\ KeepTable /\ KeepParam /\ KeepExpr

\* a loop that returns on TYPE MAIN without taking the peek back
global_decl_list_no_rollback ==
  /\ Frame("global_decl_list")
  /\ IF ~is_type_token(LA.token)
     THEN /\ Goto(<<>>)
          /\ Stay
          /\ UNCHANGED typestr
     ELSE \E t2 \in NextTok :
            IF t2.token = "MAIN"
            THEN /\ Consume(t2)
                 /\ UNCHANGED typestr
                 /\ Goto(<<>>)
            ELSE /\ Consume(t2)
                 /\ typestr' = norm_type_token(LA.token)
                 /\ stack' = Declaration \o stack
  /\ Quiet
  /\ UNCHANGED <<id, arrsz, skipline>>
  /\ KeepTable /\ KeepParam /\ KeepExpr

\* one iteration of global_decl_list's loop.  All three programs end it in
\* the same state: on TYPE MAIN pos is back on the type token, otherwise the
\* type token is consumed and declaration(ty) runs.
global_decl_list ==
  /\ Frame("global_decl_list")
  /\ IF ~is_type_token(LA.token)
     THEN /\ Goto(<<>>)
          /\ Stay
          /\ UNCHANGED typestr
     ELSE \E t2 \in NextTok :
            IF t2.token = "MAIN"
            THEN /\ Reveal(t2)
                 /\ toks' = <<LA, t2>>          \* consume(); LA(); pos--
                 /\ UNCHANGED <<pos, prevline, typestr>>
                 /\ Goto(<<>>)
            ELSE /\ Consume(t2)
                 /\ typestr' = norm_type_token(LA.token)
                 /\ stack' = Declaration \o stack
  /\ Quiet
  /\ UNCHANGED <<id, arrsz, skipline>>
  /\ KeepTable /\ KeepParam /\ KeepExpr

\* program: if (!type_specifier(rtype)) { syn_error; return; } function_def
program_type ==
  /\ Frame("program_type")
  /\ IF is_type_token(LA.token)
     THEN /\ \E t \in NextTok : Consume(t)
          /\ Quiet
          /\ Goto(<<"function_def">>)
          /\ UNCHANGED skipline
     ELSE syn_error("Any keyword expected", <<>>)
  /\ KeepData

\* an initializer that is the sentinel -1 in every program
arrsz_init_sentinel(v) == -1

\* init_declarator: int arrsz = 0; in semantic_analyser.c and
\* sematic_analyser.c, int arrsz = -1; in syntax_analyser.c
arrsz_init(v) == IF v = "syntax" THEN -1 ELSE 0

init_declarator ==
  /\ Frame("init_declarator")
  /\ IF LA.token = "IDENTIFIER"
     THEN /\ \E t \in NextTok : Consume(t)
          /\ id' = LA
          /\ arrsz' = arrsz_init(variant)
          /\ Quiet
          /\ Goto(<<"array_opt", "init_opt", "init_declarator_add">>)
          /\ UNCHANGED skipline
     ELSE /\ syn_error("Identifier expected", <<>>)
          /\ UNCHANGED <<id, arrsz>>
  /\ UNCHANGED typestr
  /\ KeepTable /\ KeepParam /\ KeepExpr

array_opt ==
  /\ Frame("array_opt")
  /\ IF LA.token # "LBRACKET"
     THEN /\ Stay
          /\ arrsz' = IF variant = "semantic" THEN 0 ELSE arrsz
          /\ Goto(<<>>)
     ELSE /\ \E t \in NextTok : Consume(t)
          /\ UNCHANGED arrsz
          /\ Goto(<<"array_opt_size">>)
  /\ Quiet
  /\ UNCHANGED <<typestr, id, skipline>>
  /\ KeepTable /\ KeepParam /\ KeepExpr

\* after '[': the size if an INT_CONST stands there, else 0 and the ']'
array_opt_size ==
  /\ Frame("array_opt_size")
  /\ IF LA.token = "INT_CONST"
     THEN /\ \E t \in NextTok : Consume(t)
          /\ arrsz' = atoi(LA.lexeme)
          /\ Quiet
          /\ Goto(<<"array_opt_rbracket">>)
          /\ UNCHANGED skipline
     ELSE /\ arrsz' = 0
          /\ IF LA.token = "RBRACKET"
             THEN /\ \E t \in NextTok : Consume(t)
                  /\ Quiet
                  /\ Goto(<<>>)
                  /\ UNCHANGED skipline
             ELSE syn_error("Right bracket expected", <<>>)
  /\ UNCHANGED <<typestr, id>>
  /\ KeepTable /\ KeepParam /\ KeepExpr

array_opt_rbracket ==
  MustMatch("array_opt_rbracket", "RBRACKET", "Right bracket expected", <<>>)

init_opt ==
  /\ Frame("init_opt")
  /\ IF LA.token # "ASSIGN"
     THEN Stay /\ Goto(<<>>)
     ELSE (\E t \in NextTok : Consume(t)) /\ Goto(<<"init_opt_const">>)
  /\ Quiet
  /\ UNCHANGED skipline
  /\ KeepData

\* after '=': the constant; semantic_analyser.c checks it against typestr
\* an initializer that is consumed without comparing its type
init_opt_const_unchecked ==
  /\ Frame("init_opt_const")
  /\ IF LA.token \notin {"INT_CONST", "CHAR_CONST"}
     THEN syn_error(OperandMsg, <<>>)
     ELSE /\ Quiet
          /\ \E t \in NextTok : Consume(t)
          /\ Goto(<<>>) /\ UNCHANGED skipline
  /\ KeepData

init_opt_const ==
  /\ Frame("init_opt_const")
  /\ IF LA.token \notin {"INT_CONST", "CHAR_CONST"}
     THEN syn_error(OperandMsg, <<>>)
     ELSE /\ IF /\ variant = "semantic"
                /\ const_token_type(LA) # TYPE_ERROR
                /\ str_to_type(typestr) # TYPE_ERROR
                /\ const_token_type(LA) # str_to_type(typestr)
             THEN Report(<<Diag(LA.line, MismatchMsg)>>)
             ELSE Quiet
          /\ \E t \in NextTok : Consume(t)
          /\ Goto(<<>>)
          /\ UNCHANGED skipline
  /\ KeepData

\* init_declarator's add_symbol(id.lexeme, typestr, cur_scope, arrsz, ...)
init_declarator_add ==
  /\ Frame("init_declarator_add")
  /\ LET r == AddSymbol(id.lexeme, typestr, cur_scope, arrsz, id.line) IN
       /\ symtab' = r.symtab
       /\ Report(r.out)
  /\ id' = NoTok
  /\ arrsz' = 0
  /\ Goto(<<>>)
  /\ Stay
  /\ UNCHANGED <<variant, input, cur_scope, typestr, skipline>>
  /\ KeepParam /\ KeepExpr

\* while (match("COMMA", NULL)) init_declarator(typestr);
init_declarator_list ==
  /\ Frame("init_declarator_list")
  /\ IF LA.token = "COMMA"
     THEN /\ \E t \in NextTok : Consume(t)
          /\ stack' = <<"init_declarator">> \o stack
     ELSE Stay /\ Goto(<<>>)
  /\ Quiet
  /\ UNCHANGED skipline
  /\ KeepData

declaration_semi ==
  /\ Frame("declaration_semi")
  /\ IF LA.token = "SEMICOLON"
     THEN /\ \E t \in NextTok : Consume(t)
          /\ Quiet
          /\ Goto(<<>>)
          /\ UNCHANGED skipline
     ELSE syn_error("Semicolon expected", <<>>)
  /\ typestr' = ""
  /\ UNCHANGED <<id, arrsz>>
  /\ KeepTable /\ KeepParam /\ KeepExpr

----------------------------------------------------------------------------
(* function_def *)

\* what an uninitialized char pty[16] / Tok pid may hold when
\* sematic_analyser.c reads it after a failed type_specifier / match
\* ("?" stands for any other text)
GarbageTypes == {"Void", "Char", "Int", "?"}
GarbageToks == {Tok("?", n, 0) : n \in Names \cup {"?"}}

\* match("MAIN"); semantic_analyser.c and syntax_analyser.c then insert main,
\* and semantic_analyser.c enters scope Main
function_def ==
  /\ Frame("function_def")
  /\ IF LA.token = "MAIN"
     THEN /\ \E t \in NextTok : Consume(t)
          /\ Goto(<<"function_def_lparen">>)
          /\ UNCHANGED skipline
          /\ CASE variant = "semantic" ->
                    LET r == add_symbol(symtab, "main", "Function", "Global",
                                        0, LA.line) IN
                      /\ symtab' = r.symtab
                      /\ Report(r.out)
                      /\ cur_scope' = "Main"
               [] variant = "syntax" ->
                    LET r == add_symbol_syntax(symtab, "main", "Function",
                                               "Global", -1) IN
                      /\ symtab' = r.symtab
                      /\ Report(r.out)
                      /\ UNCHANGED cur_scope
               [] OTHER ->
                    /\ Quiet
                    /\ UNCHANGED <<symtab, cur_scope>>
     ELSE /\ syn_error("MAIN expected", <<>>)
          /\ UNCHANGED <<symtab, cur_scope>>
  /\ UNCHANGED <<variant, input>>
  /\ KeepDecl /\ KeepParam /\ KeepExpr

function_def_lparen ==
  MustMatch("function_def_lparen", "LPAREN", "Opening parenthesis missing",
            <<"function_def_params">>)

\* the parameter list: VOID, or the parameters; syntax_analyser.c reads one
\* type_specifier here
function_def_params ==
  /\ Frame("function_def_params")
  /\ IF variant # "syntax" /\ LA.token = "VOID"
     THEN /\ \E t \in NextTok : Consume(t)
          /\ Goto(<<"function_def_rparen">>)
     ELSE /\ Stay
          /\ IF variant = "semantic" /\ ~is_type_token(LA.token)
             THEN Goto(<<"function_def_rparen">>)
             ELSE Goto(<<"param_type">>)
  /\ Quiet
  /\ UNCHANGED skipline
  /\ KeepData

\* type_specifier(pty); on failure semantic_analyser.c leaves the loop,
\* sematic_analyser.c goes on with pty as it was
param_type ==
  /\ Frame("param_type")
  /\ IF is_type_token(LA.token)
     THEN /\ \E t \in NextTok : Consume(t)
          /\ pty' = IF variant = "syntax" THEN "" ELSE norm_type_token(LA.token)
          /\ Quiet
          /\ UNCHANGED skipline
          /\ IF variant = "syntax"
             THEN Goto(<<"function_def_rparen">>)
             ELSE Goto(<<"param_id">>)
     ELSE IF variant = "sematic"
     THEN /\ syn_error("Any keyword expected", <<"param_id">>)
          /\ pty' \in GarbageTypes
     ELSE /\ syn_error("Any keyword expected", <<"function_def_rparen">>)
          /\ UNCHANGED pty
  /\ UNCHANGED pid
  /\ KeepTable /\ KeepDecl /\ KeepExpr

\* match("IDENTIFIER", &pid); on failure semantic_analyser.c leaves the
\* loop, sematic_analyser.c goes on to add_symbol with pid as it was
param_id ==
  /\ Frame("param_id")
  /\ IF LA.token = "IDENTIFIER"
     THEN /\ \E t \in NextTok : Consume(t)
          /\ pid' = LA
          /\ Quiet
          /\ Goto(<<"param_add">>)
          /\ UNCHANGED <<skipline, pty>>
     ELSE IF variant = "sematic"
     THEN /\ syn_error("Identifier expected", <<"param_add">>)
          /\ pid' \in GarbageToks
          /\ UNCHANGED pty
     ELSE /\ syn_error("Identifier expected", <<"function_def_rparen">>)
          /\ pty' = ""
          /\ UNCHANGED pid
  /\ KeepTable /\ KeepDecl /\ KeepExpr

\* add_symbol(pid.lexeme, pty, "Main", 0, pid.line)
param_add ==
  /\ Frame("param_add")
  /\ LET r == AddSymbol(pid.lexeme, pty, "Main", 0, pid.line) IN
       /\ symtab' = r.symtab
       /\ Report(r.out)
  /\ pid' = NoTok
  /\ pty' = ""
  /\ Goto(<<"param_comma">>)
  /\ Stay
  /\ UNCHANGED <<variant, input, cur_scope, skipline>>
  /\ KeepDecl /\ KeepExpr

\* if (!match("COMMA", NULL)) break;
param_comma ==
  /\ Frame("param_comma")
  /\ IF LA.token = "COMMA"
     THEN /\ \E t \in NextTok : Consume(t)
          /\ Goto(<<"param_type">>)
     ELSE Stay /\ Goto(<<"function_def_rparen">>)
  /\ Quiet
  /\ UNCHANGED skipline
  /\ KeepData

\* ')' and then the body: block() in semantic_analyser.c, '{' stmt_list_opt
\* '}' inline in the other two
function_def_rparen ==
  MustMatch("function_def_rparen", "RPAREN", "Closing parenthesis missing",
            IF variant = "semantic"
            THEN <<"block", "function_def_exit">>
            ELSE <<"function_def_lbrace">>)

function_def_lbrace ==
  MustMatch("function_def_lbrace", "LBRACE", "{ missing",
            <<"function_def_body">>)

\* strcpy(cur_scope, "Main"); stmt_list_opt();
function_def_body ==
  /\ Frame("function_def_body")
  /\ cur_scope' = "Main"
  /\ Goto(<<"stmt_list_opt", "function_def_rbrace", "function_def_exit">>)
  /\ Stay /\ Quiet
  /\ UNCHANGED <<variant, input, symtab, skipline>>
  /\ KeepDecl /\ KeepParam /\ KeepExpr

function_def_rbrace ==
  MustMatch("function_def_rbrace", "RBRACE", "} missing", <<>>)

\* strcpy(cur_scope, "Global");
\* a function_def that returns without restoring the scope
function_def_exit_keeps_scope ==
  /\ Frame("function_def_exit")
  /\ Goto(<<>>)
  /\ Stay /\ Quiet
  /\ UNCHANGED <<variant, input, symtab, cur_scope, skipline>>
  /\ KeepDecl /\ KeepParam /\ KeepExpr

\* a function_def that reports a token left after main's block
function_def_exit_checks_end ==
  /\ Frame("function_def_exit")
  /\ cur_scope' = "Global"
  /\ Goto(<<>>)
  /\ Stay
  /\ IF LA.token = "EOF" THEN Quiet ELSE Report(<<Diag(LA.line, "End of file expected")>>)
  /\ UNCHANGED <<variant, input, symtab, skipline>>
  /\ KeepDecl /\ KeepParam /\ KeepExpr

function_def_exit ==
  /\ Frame("function_def_exit")
  /\ cur_scope' = "Global"
  /\ Goto(<<>>)
  /\ Stay /\ Quiet
  /\ UNCHANGED <<variant, input, symtab, skipline>>
  /\ KeepDecl /\ KeepParam /\ KeepExpr

\* main: write_symbol_table and the summary line, after program() returned
write_symbol_table ==
  /\ Frame("write_symbol_table")
  /\ Goto(<<>>)
  /\ Stay /\ Quiet /\ KeepData
  /\ UNCHANGED skipline

----------------------------------------------------------------------------
(* Statements *)

\* one iteration of stmt_list_opt's loop
stmt_list_opt ==
  /\ Frame("stmt_list_opt")
  /\ IF LA.token \in {"RBRACE", "EOF"}
     THEN Goto(<<>>)
     ELSE stack' = <<"statement">> \o stack
  /\ Stay /\ Quiet /\ KeepData
  /\ UNCHANGED skipline

\* the statement dispatcher; for a declaration, type_specifier(ty) as well
statement ==
  /\ Frame("statement")
  /\ IF is_type_token(LA.token)
     THEN /\ \E t \in NextTok : Consume(t)
          /\ typestr' = norm_type_token(LA.token)
          /\ Goto(Declaration)
     ELSE /\ Stay
          /\ UNCHANGED typestr
          /\ Goto(CASE LA.token = "IF" -> <<"if_stmt">>
                    [] LA.token = "WHILE" -> <<"while_stmt">>
                    [] LA.token = "FOR" -> <<"for_stmt">>
                    [] LA.token = "LBRACE" -> <<"block">>
                    [] OTHER -> <<"expr_stmt">>)
  /\ Quiet
  /\ UNCHANGED <<id, arrsz, skipline>>
  /\ KeepTable /\ KeepParam /\ KeepExpr

\* if (!match("LBRACE", NULL)) { syn_error; return; } stmt_list_opt(); '}'
block ==
  /\ Frame("block")
  /\ IF LA.token = "LBRACE"
     THEN /\ \E t \in NextTok : Consume(t)
          /\ Quiet
          /\ Goto(<<"stmt_list_opt", "block_rbrace">>)
          /\ UNCHANGED skipline
     ELSE syn_error(IF variant = "semantic" THEN "{ expected" ELSE "{ missing",
                    <<>>)
  /\ KeepData

block_rbrace == MustMatch("block_rbrace", "RBRACE", "} missing", <<>>)

\* match the statement's keyword kw, or syn_error and return
Keyword(l, kw, msg, next) ==
  /\ Frame(l)
  /\ IF LA.token = kw
     THEN /\ \E t \in NextTok : Consume(t)
          /\ Quiet
          /\ Goto(next)
          /\ UNCHANGED skipline
     ELSE syn_error(msg, <<>>)
  /\ KeepData

expr_stmt ==
  /\ Frame("expr_stmt")
  /\ IF LA.token = "SEMICOLON"
     THEN (\E t \in NextTok : Consume(t)) /\ Goto(<<>>)
     ELSE Stay /\ Goto(<<"expression_if_any", "expr_stmt_expr">>)
  /\ Quiet
  /\ UNCHANGED skipline
  /\ KeepData

expr_stmt_expr ==
  AfterExpression("expr_stmt_expr", FALSE, <<"expr_stmt_semi">>)

expr_stmt_semi ==
  MustMatch("expr_stmt_semi", "SEMICOLON", "Semicolon expected", <<>>)

if_stmt == Keyword("if_stmt", "IF", "IF expected", <<"if_lparen">>)

if_lparen ==
  MustMatch("if_lparen", "LPAREN", "Opening parenthesis missing",
            <<"expression_if_any", "if_cond">>)

if_cond == AfterExpression("if_cond", TRUE, <<"if_rparen">>)

if_rparen ==
  MustMatch("if_rparen", "RPAREN", "Closing parenthesis missing",
            <<"block", "if_else">>)

\* if (match("ELSE", NULL)) block();
if_else ==
  /\ Frame("if_else")
  /\ IF LA.token = "ELSE"
     THEN (\E t \in NextTok : Consume(t)) /\ Goto(<<"block">>)
     ELSE Stay /\ Goto(<<>>)
  /\ Quiet
  /\ UNCHANGED skipline
  /\ KeepData

while_stmt ==
  Keyword("while_stmt", "WHILE", "WHILE expected", <<"while_lparen">>)

while_lparen ==
  MustMatch("while_lparen", "LPAREN", "Opening parenthesis missing",
            <<"expression_if_any", "while_cond">>)

while_cond == AfterExpression("while_cond", TRUE, <<"while_rparen">>)

while_rparen ==
  MustMatch("while_rparen", "RPAREN", "Closing parenthesis missing",
            <<"block">>)

for_stmt == Keyword("for_stmt", "FOR", "FOR expected", <<"for_lparen">>)

for_lparen ==
  MustMatch("for_lparen", "LPAREN", "Opening parenthesis missing",
            <<"expression_if_any", "for_init">>)

for_init == AfterExpression("for_init", FALSE, <<"for_semi1">>)

for_semi1 ==
  MustMatch("for_semi1", "SEMICOLON", "Semicolon expected",
            <<"expression_if_any", "for_cond">>)

for_cond == AfterExpression("for_cond", TRUE, <<"for_semi2">>)

for_semi2 ==
  MustMatch("for_semi2", "SEMICOLON", "Semicolon expected",
            <<"expression_if_any", "for_incr">>)

for_incr == AfterExpression("for_incr", FALSE, <<"for_rparen">>)

for_rparen ==
  MustMatch("for_rparen", "RPAREN", "Closing parenthesis missing",
            <<"statement">>)

----------------------------------------------------------------------------
(* expression_if_any *)

\* the first operand, or return 0
expression_if_any ==
  /\ Frame("expression_if_any")
  /\ IF is_operand(LA.token)
     THEN /\ \E t \in NextTok : Consume(t)
          /\ IF variant = "syntax"
             THEN Quiet /\ UNCHANGED cur_type
             ELSE LET a == operand(LA) IN
                    Report(a.out) /\ cur_type' = a.type
          /\ Goto(<<"expression_loop">>)
          /\ UNCHANGED ret
     ELSE /\ Stay /\ Quiet
          /\ ret' = 0
          /\ Goto(<<>>)
          /\ UNCHANGED cur_type
  /\ UNCHANGED <<op, skipline>>
  /\ KeepTable /\ KeepDecl /\ KeepParam

\* the head of the loop: an operator, or return 1 with *out_type = cur_type
expression_loop ==
  /\ Frame("expression_loop")
  /\ IF is_operator(LA.token)
     THEN /\ \E t \in NextTok : Consume(t)
          /\ op' = LA
          /\ Goto(<<"expression_rhs">>)
          /\ UNCHANGED ret
     ELSE /\ Stay
          /\ ret' = 1
          /\ Goto(<<>>)
          /\ UNCHANGED op
  /\ Quiet
  /\ UNCHANGED <<cur_type, skipline>>
  /\ KeepTable /\ KeepDecl /\ KeepParam

\* a loop that applies each operator to its right operand alone
expression_rhs_forgets_left ==
  /\ Frame("expression_rhs")
  /\ IF is_operand(LA.token)
     THEN /\ \E t \in NextTok : Consume(t)
          /\ IF variant = "syntax"
             THEN Quiet /\ UNCHANGED cur_type
             ELSE LET b == operand(LA)
                      r == apply_binary_op(op.token, b.type, b.type, op.line)
                  IN Report(b.out \o r.out) /\ cur_type' = r.type
          /\ Goto(<<"expression_loop">>)
          /\ UNCHANGED <<ret, skipline>>
     ELSE /\ syn_error(OperandMsg, <<>>)
          /\ ret' = 1
          /\ UNCHANGED cur_type
  /\ op' = NoTok
  /\ KeepTable /\ KeepDecl /\ KeepParam

\* the right operand and apply_binary_op, or syn_error and break
expression_rhs ==
  /\ Frame("expression_rhs")
  /\ IF is_operand(LA.token)
     THEN /\ \E t \in NextTok : Consume(t)
          /\ IF variant = "syntax"
             THEN Quiet /\ UNCHANGED cur_type
             ELSE LET b == operand(LA)
                      r == apply_binary_op(op.token, cur_type, b.type, op.line)
                  IN Report(b.out \o r.out) /\ cur_type' = r.type
          /\ Goto(<<"expression_loop">>)
          /\ UNCHANGED <<ret, skipline>>
     ELSE /\ syn_error(OperandMsg, <<>>)
          /\ ret' = 1
          /\ UNCHANGED cur_type
  /\ op' = NoTok
  /\ KeepTable /\ KeepDecl /\ KeepParam

----------------------------------------------------------------------------

Next ==
  \/ program \/ global_decl_list \/ program_type
  \/ init_declarator \/ array_opt \/ array_opt_size \/ array_opt_rbracket
  \/ init_opt \/ init_opt_const \/ init_declarator_add
  \/ init_declarator_list \/ declaration_semi
  \/ function_def \/ function_def_lparen \/ function_def_params
  \/ param_type \/ param_id \/ param_add \/ param_comma
  \/ function_def_rparen \/ function_def_lbrace \/ function_def_body
  \/ function_def_rbrace \/ function_def_exit \/ write_symbol_table
  \/ stmt_list_opt \/ statement \/ block \/ block_rbrace
  \/ expr_stmt \/ expr_stmt_expr \/ expr_stmt_semi
  \/ if_stmt \/ if_lparen \/ if_cond \/ if_rparen \/ if_else
  \/ while_stmt \/ while_lparen \/ while_cond \/ while_rparen
  \/ for_stmt \/ for_lparen \/ for_init \/ for_semi1 \/ for_cond
  \/ for_semi2 \/ for_incr \/ for_rparen
  \/ expression_if_any \/ expression_loop \/ expression_rhs
  \/ skip_line_tokens

Spec == Init /\ [][Next]_vars

----------------------------------------------------------------------------
(***************************************************************************)
(* The tokenizer, lexical_analyser.c.  It reads the source file one        *)
(* character at a time through getc_track and never looks back further     *)
(* than the characters it has given back with ungetc_track, so the model   *)
(* draws each character of the file when the tokenizer first reads it:     *)
(* "unread" bounds the characters that may still follow, and the end of    *)
(* the file may come at any read.  tokens.txt is only appended to: "rows"  *)
(* counts its rows and "emitted" holds the rows of the last step.          *)
(***************************************************************************)

(* Bounds of the tokenizer's model *)

\* the characters of the source file
MaxChars == 6
\* sizeof(buf) of scan_string, scaled down so that a full buffer is reached
StringBuf == 4
\* sizeof(buf) of main's identifier and number buffers, scaled down likewise
WordBuf == 4

\* what fgetc returns at the end of the file
EOFc == "EOF"

\* sizeof(temp) of keyword_or_ident, scaled down with WordBuf
TempBuf == 3

Letters == {"a", "i", "f", "F"}
Digits == {"2"}
Whitespace == {" ", "\n"}
\* a source file is written either in words over i, f, F and 2, with "if" the
\* keyword among them, or in one letter, one digit and the other characters
Alphabet ==
  IF charset = "words"
  THEN {"i", "f", "F"} \cup Digits \cup Whitespace
  ELSE {"a"} \cup Digits \cup Whitespace \cup {"/", "*", "\"", "'", "\\", "=", ";", "@"}

is_ident_start(c) == c \in Letters \cup {"_"}
is_ident_part(c) == c \in Letters \cup Digits \cup {"_"}
isdigit(c) == c \in Digits
\* the white space skip_ws_and_comments skips (TLA+ has no "\v")
blank(c) == c \in {" ", "\t", "\r", "\f", "\n"}

\* the token name of each single-character token of main
SingleCharToken ==
  [c \in {"+", "-", "*", "/", ">", "<", "(", ")", "{", "}", "[", "]", ";", ","} |->
     CASE c = "+" -> "PLUS"     [] c = "-" -> "MINUS"    [] c = "*" -> "STAR"
       [] c = "/" -> "SLASH"    [] c = ">" -> "GT"       [] c = "<" -> "LT"
       [] c = "(" -> "LPAREN"   [] c = ")" -> "RPAREN"   [] c = "{" -> "LBRACE"
       [] c = "}" -> "RBRACE"   [] c = "[" -> "LBRACKET" [] c = "]" -> "RBRACKET"
       [] c = ";" -> "SEMICOLON" [] c = "," -> "COMMA"]

Keywords == {"VOID", "CHAR", "INT", "IF", "ELSE", "WHILE", "FOR", "MAIN"}

toupper(c) == CASE c = "a" -> "A" [] c = "i" -> "I" [] c = "f" -> "F" [] OTHER -> c

RECURSIVE Str(_)
\* the C string of a buffer's characters
Str(cs) == IF cs = <<>> THEN "" ELSE Head(cs) \o Str(Tail(cs))

\* temp[i] = toupper(lex[i]) for every i
Upper(lex) == [i \in 1..Len(lex) |-> toupper(lex[i])]

\* what buf holds when a zero byte is written into it
Cut(lex) == {SubSeq(lex, 1, k) : k \in 0..Len(lex)}

\* a keyword_or_ident that compares lex as it is written
keyword_or_ident_exact_case(lex) == IF Str(lex) \in Keywords THEN Str(lex) ELSE "IDENTIFIER"

\* keyword_or_ident(lex) for a lex that fits temp
keyword_or_ident(lex) ==
  IF Str(Upper(lex)) \in Keywords THEN Str(Upper(lex)) ELSE "IDENTIFIER"

\* the token name and the lexeme main emits for buf: keyword_or_ident writes
\* temp[strlen(lex)], which lies outside temp for a lex of sizeof(temp) or
\* more characters; the zero byte then lands in buf or elsewhere in the frame,
\* and no keyword compares equal to the full temp
Classified(lex) ==
  IF Len(lex) < TempBuf
  THEN {<<keyword_or_ident(lex), Str(lex)>>}
  ELSE {<<"IDENTIFIER", Str(cut)>> : cut \in Cut(lex)}

UnterminatedMsg == "Un-terminated comments"
StringMsg == "String constants exceed line"
CharMsg == "Char constant too long"
UndefinedMsg == "Undefined symbol"

\* the characters the next fgetc can return
NextChars ==
  IF pushback # <<>> THEN {Head(pushback)}
  ELSE IF unread = 0 THEN {EOFc}
  ELSE Alphabet \cup {EOFc}

RECURSIVE Newlines(_)
Newlines(cs) ==
  IF cs = <<>> THEN 0
  ELSE (IF Head(cs) = "\n" THEN 1 ELSE 0) + Newlines(Tail(cs))

RECURSIVE Given(_)
\* what ungetc_track leaves in the stream for the calls cs, the last call first
Given(cs) ==
  IF cs = <<>> THEN <<>>
  ELSE Given(Tail(cs)) \o (IF Head(cs) = EOFc THEN <<>> ELSE <<Head(cs)>>)

\* an ungetc_track that leaves line_no alone
line_fix_none(back) == 0

\* what the ungetc_track calls for back take off line_no
line_fix(back) == Newlines(back)

\* getc_track() returns c, and the step then calls ungetc_track for each of back
getc_track(c, back) ==
  /\ c \in NextChars
  /\ last' = c
  /\ pushback' = Given(back) \o (IF pushback # <<>> THEN Tail(pushback) ELSE <<>>)
  /\ unread' = IF pushback # <<>> THEN unread
               ELSE IF c = EOFc THEN 0 ELSE unread - 1
  /\ line_no' = line_no + (IF c = "\n" THEN 1 ELSE 0) - line_fix(back)
  /\ filenl' = filenl + (IF pushback = <<>> /\ c = "\n" THEN 1 ELSE 0)
  /\ tokline' = IF pc = "main" THEN 1 + filenl' - Newlines(pushback') ELSE tokline
  /\ eqrun' = IF pc \in {"main", "assign"} /\ c = "=" THEN eqrun + 1
              ELSE IF pc = "assign" \/ (pc = "skip_ws_and_comments" /\ c = "=") THEN eqrun
              ELSE 0

At(l) == pc = l

\* a tokenizer step leaves the parser's variables alone
Lexing == UNCHANGED <<parservars, charset, loadvars>>

\* emit(tok, lex, line)
emit(tok, lex, line) == emitted' = <<Tok(tok, lex, line)>> /\ rows' = rows + 1

NoRow == emitted' = <<>> /\ UNCHANGED rows

\* a diagnostic that names the line the tokenizer is on instead of the given one
Complain_current_line(line, msg) == stderr' = <<Diag(line_no', msg)>>

\* fprintf(stderr, "Line %d: ...\n", line)
Complain(line, msg) == stderr' = <<Diag(line, msg)>>

Silent == stderr' = <<>>

\* skip_ws_and_comments: int c = getc_track() and the tests on c
skip_ws_and_comments ==
  /\ At("skip_ws_and_comments")
  /\ \E c \in NextChars :
       /\ IF c = EOFc \/ blank(c) \/ c = "/"
          THEN getc_track(c, <<>>)
          ELSE getc_track(c, <<c>>)
       /\ pc' = IF c = EOFc THEN "main"
                ELSE IF blank(c) THEN "skip_ws_and_comments"
                ELSE IF c = "/" THEN "slash"
                ELSE "main"
  /\ NoRow /\ Silent /\ Lexing
  /\ UNCHANGED <<start_line, buf, text, prev>>

\* skip_ws_and_comments after a '/': int d = getc_track()
slash ==
  /\ At("slash")
  /\ \E d \in NextChars :
       IF d = "*"
       THEN /\ getc_track(d, <<>>)
            /\ prev' = ""
            /\ start_line' = line_no'
            /\ pc' = "comment"
       ELSE /\ getc_track(d, <<d, "/">>)
            /\ pc' = "main"
            /\ UNCHANGED <<start_line, prev>>
  /\ NoRow /\ Silent /\ Lexing
  /\ UNCHANGED <<buf, text>>

\* the while loop of a comment: one cur = getc_track()
comment ==
  /\ At("comment")
  /\ \E cur \in NextChars :
       /\ getc_track(cur, <<>>)
       /\ IF cur = EOFc
          THEN /\ Complain(start_line, UnterminatedMsg)
               /\ pc' = "main"
               /\ prev' = ""
          ELSE IF prev = "*" /\ cur = "/"
          THEN /\ Silent
               /\ pc' = "skip_ws_and_comments"
               /\ prev' = ""
          ELSE /\ Silent
               /\ pc' = "comment"
               /\ prev' = cur
  /\ NoRow /\ Lexing
  /\ UNCHANGED <<start_line, buf, text>>

\* main's loop after skip_ws_and_comments: int c = getc_track() and the tests on c
main ==
  /\ At("main")
  /\ \E c \in NextChars :
       /\ getc_track(c, <<>>)
       /\ IF c = EOFc
          THEN pc' = "done" /\ NoRow /\ Silent /\ UNCHANGED <<buf, start_line>>
          ELSE IF is_ident_start(c)
          THEN pc' = "ident" /\ buf' = <<c>> /\ NoRow /\ Silent /\ UNCHANGED start_line
          ELSE IF isdigit(c)
          THEN pc' = "number" /\ buf' = <<c>> /\ NoRow /\ Silent /\ UNCHANGED start_line
          ELSE IF c = "\""
          THEN pc' = "scan_string" /\ buf' = <<>> /\ start_line' = line_no'
               /\ NoRow /\ Silent
          ELSE IF c = "'"
          THEN pc' = "scan_char" /\ buf' = <<>> /\ start_line' = line_no'
               /\ NoRow /\ Silent
          ELSE IF c = "="
          THEN pc' = "assign" /\ NoRow /\ Silent /\ UNCHANGED <<buf, start_line>>
          ELSE IF c \in DOMAIN SingleCharToken
          THEN /\ pc' = "skip_ws_and_comments"
               /\ emit(SingleCharToken[c], c, line_no')
               /\ Silent /\ UNCHANGED <<buf, start_line>>
          ELSE /\ pc' = "skip_line_after_error"
               /\ Complain(line_no', UndefinedMsg)
               /\ NoRow /\ UNCHANGED <<buf, start_line>>
       /\ text' = IF is_ident_start(c) \/ isdigit(c) THEN <<c>> ELSE <<>>
  /\ Lexing
  /\ UNCHANGED prev

\* main's identifier loop: one d = getc_track()
ident ==
  /\ At("ident")
  /\ \E d \in NextChars :
       IF ~is_ident_part(d)
       THEN /\ getc_track(d, <<d>>)
            /\ \E tk \in Classified(buf) : emit(tk[1], tk[2], line_no')
            /\ pc' = "skip_ws_and_comments"
            /\ text' = <<>>
            /\ UNCHANGED buf
       ELSE /\ getc_track(d, <<>>)
            /\ buf' = IF Len(buf) < WordBuf - 1 THEN Append(buf, d) ELSE buf
            /\ text' = Append(text, d)
            /\ NoRow
            /\ pc' = "ident"
  /\ Silent /\ Lexing
  /\ UNCHANGED <<start_line, prev>>

\* main's number loop: one d = getc_track()
number ==
  /\ At("number")
  /\ \E d \in NextChars :
       IF ~isdigit(d)
       THEN /\ getc_track(d, <<d>>)
            /\ emit("INT_CONST", Str(buf), line_no')
            /\ pc' = "skip_ws_and_comments"
            /\ text' = <<>>
            /\ UNCHANGED buf
       ELSE /\ getc_track(d, <<>>)
            /\ buf' = IF Len(buf) < WordBuf - 1 THEN Append(buf, d) ELSE buf
            /\ text' = Append(text, d)
            /\ NoRow
            /\ pc' = "number"
  /\ Silent /\ Lexing
  /\ UNCHANGED <<start_line, prev>>

\* a rule for '=' that never joins two of them
assign_single ==
  /\ At("assign")
  /\ \E d \in NextChars : getc_track(d, <<d>>) /\ emit("ASSIGN", "=", line_no')
  /\ pc' = "skip_ws_and_comments"
  /\ Silent /\ Lexing
  /\ UNCHANGED <<start_line, buf, text, prev>>

\* main after a '=': int d = getc_track()
assign ==
  /\ At("assign")
  /\ \E d \in NextChars :
       IF d = "="
       THEN getc_track(d, <<>>) /\ emit("EQ", "==", line_no')
       ELSE getc_track(d, <<d>>) /\ emit("ASSIGN", "=", line_no')
  /\ pc' = "skip_ws_and_comments"
  /\ Silent /\ Lexing
  /\ UNCHANGED <<start_line, buf, text, prev>>

\* scan_string's loop: one c = getc_track()
scan_string ==
  /\ At("scan_string")
  /\ \E c \in NextChars :
       /\ getc_track(c, <<>>)
       /\ IF c = EOFc \/ c = "\n"
          THEN /\ Complain(start_line, StringMsg)
               /\ NoRow
               /\ pc' = "skip_ws_and_comments"
               /\ text' = <<>>
               /\ UNCHANGED buf
          ELSE IF c = "\""
          THEN /\ emit("STRING_CONST", Str(buf), start_line)
               /\ Silent
               /\ pc' = "skip_ws_and_comments"
               /\ text' = <<>>
               /\ UNCHANGED buf
          ELSE IF c = "\\"
          THEN /\ NoRow /\ Silent
               /\ pc' = "scan_string_escape"
               /\ UNCHANGED <<buf, text>>
          ELSE /\ buf' = IF Len(buf) < StringBuf - 1 THEN Append(buf, c) ELSE buf
               /\ text' = Append(text, c)
               /\ NoRow /\ Silent
               /\ pc' = "scan_string"
  /\ Lexing
  /\ UNCHANGED <<start_line, prev>>

\* scan_string after a backslash: int e = getc_track()
scan_string_escape ==
  /\ At("scan_string_escape")
  /\ \E e \in NextChars :
       /\ getc_track(e, <<>>)
       /\ IF e = EOFc \/ e = "\n"
          THEN /\ Complain(start_line, StringMsg)
               /\ pc' = "skip_ws_and_comments"
               /\ text' = <<>>
               /\ UNCHANGED buf
          ELSE /\ buf' = IF Len(buf) < StringBuf - 2 THEN buf \o <<"\\", e>> ELSE buf
               /\ text' = text \o <<"\\", e>>
               /\ Silent
               /\ pc' = "scan_string"
  /\ NoRow /\ Lexing
  /\ UNCHANGED <<start_line, prev>>

\* scan_char: int c = getc_track() and the tests on c
scan_char ==
  /\ At("scan_char")
  /\ \E c \in NextChars :
       /\ getc_track(c, <<>>)
       /\ IF c = "\\"
          THEN /\ Silent
               /\ pc' = "scan_char_escape"
               /\ UNCHANGED <<buf, text>>
          ELSE IF c = "'" \/ c = "\n" \/ c = EOFc
          THEN /\ Complain(start_line, CharMsg)
               /\ pc' = "skip_ws_and_comments"
               /\ UNCHANGED <<buf, text>>
          ELSE /\ Silent
               /\ pc' = "scan_char_end"
               /\ buf' = <<c>>
               /\ text' = <<c>>
  /\ NoRow /\ Lexing
  /\ UNCHANGED <<start_line, prev>>

\* scan_char after a backslash: int e = getc_track()
scan_char_escape ==
  /\ At("scan_char_escape")
  /\ \E e \in NextChars :
       /\ getc_track(e, <<>>)
       /\ IF e = EOFc \/ e = "\n"
          THEN /\ Complain(start_line, CharMsg)
               /\ pc' = "skip_ws_and_comments"
               /\ UNCHANGED <<buf, text>>
          ELSE /\ Silent
               /\ pc' = "scan_char_escape_end"
               /\ buf' = <<"\\", e>>
               /\ text' = <<"\\", e>>
  /\ NoRow /\ Lexing
  /\ UNCHANGED <<start_line, prev>>

\* a scan_char that resumes right after the character that was not the quote
AfterBadChar_no_skip(c) == "skip_ws_and_comments"

\* where scan_char goes after the character that should have been the closing quote
AfterBadChar(c) ==
  IF c = EOFc \/ c = "\n" \/ c = "'" THEN "skip_ws_and_comments" ELSE "scan_char_skip"

\* scan_char after an escape: c = getc_track(), which should be the closing quote
scan_char_escape_end ==
  /\ At("scan_char_escape_end")
  /\ \E c \in NextChars :
       /\ getc_track(c, <<>>)
       /\ IF c # "'"
          THEN /\ Complain(start_line, CharMsg)
               /\ NoRow
               /\ pc' = AfterBadChar(c)
          ELSE /\ emit("CHAR_CONST", Str(buf), start_line)
               /\ Silent
               /\ pc' = "skip_ws_and_comments"
  /\ text' = <<>>
  /\ Lexing
  /\ UNCHANGED <<start_line, buf, prev>>

\* scan_char after a plain character: int end = getc_track()
scan_char_end ==
  /\ At("scan_char_end")
  /\ \E end \in NextChars :
       /\ getc_track(end, <<>>)
       /\ IF end # "'"
          THEN /\ Complain(start_line, CharMsg)
               /\ NoRow
               /\ pc' = AfterBadChar(end)
          ELSE /\ emit("CHAR_CONST", Str(buf), start_line)
               /\ Silent
               /\ pc' = "skip_ws_and_comments"
  /\ text' = <<>>
  /\ Lexing
  /\ UNCHANGED <<start_line, buf, prev>>

\* scan_char's while loops after a constant that is too long: one getc_track()
scan_char_skip ==
  /\ At("scan_char_skip")
  /\ \E c \in NextChars :
       /\ getc_track(c, <<>>)
       /\ pc' = AfterBadChar(c)
  /\ NoRow /\ Silent /\ Lexing
  /\ UNCHANGED <<start_line, buf, text, prev>>

\* a skip_line_after_error that gives up after one character
skip_line_after_error_one_char ==
  /\ At("skip_line_after_error")
  /\ \E c \in NextChars : getc_track(c, <<>>)
  /\ pc' = "skip_ws_and_comments"
  /\ NoRow /\ Silent /\ Lexing
  /\ UNCHANGED <<start_line, buf, text, prev>>

\* skip_line_after_error's loop: one c = getc_track()
skip_line_after_error ==
  /\ At("skip_line_after_error")
  /\ \E c \in NextChars :
       /\ getc_track(c, <<>>)
       /\ pc' = IF c = EOFc \/ c = "\n" THEN "skip_ws_and_comments"
                ELSE "skip_line_after_error"
  /\ NoRow /\ Silent /\ Lexing
  /\ UNCHANGED <<start_line, buf, text, prev>>

\* no rule function of a parser runs
RulesIdle ==
  /\ ahead = <<>>
  /\ more = 0
  /\ toks = <<NoTok>>
  /\ pos = 0
  /\ prevline = 0
  /\ symtab = <<>>
  /\ cur_scope = "Global"
  /\ error_count = 0
  /\ out = <<>>
  /\ stack = <<>>
  /\ typestr = ""
  /\ id = NoTok
  /\ arrsz = 0
  /\ pty = ""
  /\ pid = NoTok
  /\ op = NoTok
  /\ cur_type = TYPE_ERROR
  /\ ret = -1
  /\ skipline = -1

\* no parser runs while the tokenizer does
ParserIdle == variant = "semantic" /\ input = "any" /\ RulesIdle

\* main has opened the source file and written the header row of tokens.txt
InitLex ==
  /\ ParserIdle
  /\ charset \in {"general", "words"}
  /\ pc = "skip_ws_and_comments"
  /\ pushback = <<>>
  /\ unread \in 0..MaxChars
  /\ last = ""
  /\ filenl = 0
  /\ tokline = 1
  /\ eqrun = 0
  /\ line_no = 1
  /\ start_line = 1
  /\ buf = <<>>
  /\ text = <<>>
  /\ prev = ""
  /\ rows = 0
  /\ emitted = <<>>
  /\ stderr = <<>>
  /\ LoadIdle

NextLex ==
  \/ skip_ws_and_comments \/ slash \/ comment
  \/ main \/ ident \/ number \/ assign
  \/ scan_string \/ scan_string_escape
  \/ scan_char \/ scan_char_escape \/ scan_char_escape_end \/ scan_char_end
  \/ scan_char_skip
  \/ skip_line_after_error

SpecLex == InitLex /\ [][NextLex]_vars

----------------------------------------------------------------------------
(* The token loaders: load_tokens of semantic_analyser.c and
   sematic_analyser.c, read_tokens of syntax_analyser.c.

   tokens.txt is a sequence of rows; a row is the sequence of its fields, the
   maximal runs of characters other than blanks, tabs and newlines. The
   tokenizer separates the fields with tabs. *)

\* the longest token file below its header row
MaxRows == 3

\* #define MAXTOK 100000, scaled
MAXTOK == 2

\* the fields of a row: a word, or a decimal integer
Fields == {"x", "2"}

\* what %d of scanf accepts
IsInt(f) == f \in {"1", "2"}

\* "Token\tLexeme\tLine No\n"
Header == <<"Token", "Lexeme", "Line", "No">>

\* the rows of up to three fields
Rows == UNION {[1..n -> Fields] : n \in 0..3}

Files == UNION {[1..n -> Rows] : n \in 0..MaxRows}

\* the file the loader opens
File(h) == IF h THEN <<Header>> \o tokfile ELSE tokfile

\* sscanf(linebuf, "%31s %255s %d", t1, t2, &line) == 3
scans_three(row) == Len(row) >= 3 /\ IsInt(row[3])

\* semantic_analyser.c: the loop over the lines after the first
RECURSIVE load_lines(_, _)
load_lines(lines, acc) ==
  IF lines = <<>> THEN acc
  ELSE LET row == Head(lines) IN
       IF ~scans_three(row) THEN load_lines(Tail(lines), acc)
       ELSE IF Len(acc) >= MAXTOK THEN acc
       ELSE load_lines(Tail(lines), Append(acc, Tok(row[1], row[2], atoi(row[3]))))

\* semantic_analyser.c: the first line is read and never looked at
load_tokens_semantic(lines) ==
  IF lines = <<>> THEN <<>> ELSE load_lines(Tail(lines), <<>>)

\* the stream fscanf reads: the fields, and "\n" where a row ends
RECURSIVE Stream(_)
Stream(lines) ==
  IF lines = <<>> THEN <<>>
  ELSE Head(lines) \o <<"\n">> \o Stream(Tail(lines))

\* a conversion of fscanf skips the white space before it, newlines too
RECURSIVE skip_space(_)
skip_space(s) ==
  IF s # <<>> /\ Head(s) = "\n" THEN skip_space(Tail(s)) ELSE s

\* while ((c = fgetc(f)) != '\n' && c != EOF);
RECURSIVE discard_line(_)
discard_line(s) ==
  IF s = <<>> THEN <<>>
  ELSE IF Head(s) = "\n" THEN Tail(s)
  ELSE discard_line(Tail(s))

\* sematic_analyser.c: the loop of fscanf(f, "%63s %255s %d", ...)
RECURSIVE load_stream(_, _)
load_stream(s, acc) ==
  LET s1 == skip_space(s) IN
  IF s1 = <<>> THEN acc                                  \* count == EOF
  ELSE LET s2 == skip_space(Tail(s1)) IN
       IF s2 = <<>> THEN acc                             \* count == 1 at the end of the file
       ELSE LET s3 == skip_space(Tail(s2)) IN
            IF s3 = <<>> THEN acc                        \* count == 2 at the end of the file
            ELSE IF ~IsInt(Head(s3))
                 THEN load_stream(discard_line(s3), acc) \* count == 2
                 ELSE LET stored == Append(acc, Tok(Head(s1), Head(s2), atoi(Head(s3)))) IN
                      IF Len(stored) >= MAXTOK THEN stored
                      ELSE load_stream(Tail(s3), stored)

load_tokens_sematic(lines) == load_stream(Stream(lines), <<>>)

\* syntax_analyser.c: the test of the first line
is_header(row) ==
  /\ Len(row) >= 3
  /\ row[1] \in {"Token", "TOKEN"}
  /\ row[2] \in {"Lexeme", "LEXEME"}
  /\ row[3] = "Line"

\* syntax_analyser.c: a line becomes a token unless it is blank
RECURSIVE read_lines(_, _)
read_lines(lines, acc) ==
  IF lines = <<>> THEN acc
  ELSE LET row == Head(lines)
           lex == IF Len(row) >= 2 THEN row[2] ELSE ""
           ln  == IF Len(row) >= 3 THEN atoi(row[3]) ELSE 0
       IN IF row = <<>> THEN read_lines(Tail(lines), acc)
          ELSE IF Len(acc) < MAXTOK
               THEN read_lines(Tail(lines), Append(acc, Tok(row[1], lex, ln)))
               ELSE read_lines(Tail(lines), acc)

read_tokens(lines) ==
  IF lines # <<>> /\ is_header(Head(lines))
  THEN read_lines(Tail(lines), <<>>)
  ELSE read_lines(lines, <<>>)

\* the loader of the program that runs
Load(lines) ==
  CASE variant = "semantic" -> load_tokens_semantic(lines)
    [] variant = "sematic"  -> load_tokens_sematic(lines)
    [] OTHER                -> read_tokens(lines)

\* main calls the loader on tokens.txt, written with or without the header row;
\* no loader writes to stderr once the file is open, or touches error_count
load_tokens ==
  /\ input = "tokens.txt"
  /\ \E h \in BOOLEAN :
       /\ ~loaded[h].ran
       /\ loaded' = [loaded EXCEPT ![h] = [ran |-> TRUE, toks |-> Load(File(h))]]
  /\ UNCHANGED <<parservars, lexvars, tokfile, written>>

\* main has not opened tokens.txt yet
InitLoad ==
  /\ variant \in Variants
  /\ input = "tokens.txt"
  /\ RulesIdle
  /\ LexIdle
  /\ tokfile \in Files
  /\ written = <<>>
  /\ loaded = [h \in BOOLEAN |-> NotLoaded]

NextLoad == load_tokens

SpecLoad == InitLoad /\ [][NextLoad]_vars

\* the tokens the tokenizer writes in the round trip: kind, the characters of
\* the lexeme, line
Emittable ==
  {[token |-> k[1], lexeme |-> k[2], line |-> l] :
     k \in {<<"IDENTIFIER", <<"a">>>>, <<"SEMICOLON", <<";">>>>,
            <<"INT_CONST", <<"2">>>>,
            <<"STRING_CONST", <<"a">>>>, <<"STRING_CONST", <<>>>>,
            <<"STRING_CONST", <<"a", " ", "a">>>>,
            <<"STRING_CONST", <<"a", "\t", "a">>>>,
            <<"CHAR_CONST", <<" ">>>>},
     l \in 1..2}

\* fprintf's %d
itoa(n) == CASE n = 1 -> "1" [] n = 2 -> "2" [] OTHER -> "0"

\* the fields scanf's %s finds in a piece of text: the runs of characters
\* between blanks and tabs
RECURSIVE fields_of(_, _, _)
fields_of(cs, cur, acc) ==
  LET closed == IF cur = <<>> THEN acc ELSE Append(acc, Str(cur)) IN
  IF cs = <<>> THEN closed
  ELSE IF Head(cs) \in {" ", "\t"} THEN fields_of(Tail(cs), <<>>, closed)
  ELSE fields_of(Tail(cs), Append(cur, Head(cs)), acc)

\* fprintf(out, "%s\t%s\t%d\n", tok, lex, line), as the row's fields
RowOf(t) == <<t.token>> \o fields_of(t.lexeme, <<>>, <<>>) \o <<itoa(t.line)>>

\* the tokenizer calls emit once more, before any parser has opened tokens.txt
emit_row ==
  /\ input = "tokens.txt"
  /\ Len(written) < MaxRows
  /\ \A h \in BOOLEAN : ~loaded[h].ran
  /\ \E t \in Emittable :
       /\ written' = Append(written, Tok(t.token, Str(t.lexeme), t.line))
       /\ tokfile' = Append(tokfile, RowOf(t))
  /\ UNCHANGED <<parservars, lexvars, loaded>>

\* the tokenizer has written the header row; the parser is one of the two
\* whose loader takes a row apart with scanf
InitRoundTrip ==
  /\ variant \in {"semantic", "sematic"}
  /\ input = "tokens.txt"
  /\ RulesIdle
  /\ LexIdle
  /\ tokfile = <<>>
  /\ written = <<>>
  /\ loaded = [h \in BOOLEAN |-> NotLoaded]

\* the tokenizer writes tokens.txt, then a parser loads it
SpecRoundTrip == InitRoundTrip /\ [][emit_row \/ load_tokens]_vars

\* a parser: its loader on the rows of a token file, its rules on a token stream
SpecParser == (Init \/ InitLoad) /\ [][Next \/ NextLoad]_vars

----------------------------------------------------------------------------
(* Properties *)

\* main has returned
Done == stack = <<>>

\* the programs with a duplicate check and a type checker
Typed == variant \in {"semantic", "sematic"}

\* the step calls add_symbol: for a declarator, a parameter, or main
Inserting ==
  \/ Frame("init_declarator_add")
  \/ Frame("param_add")
  \/ Frame("function_def") /\ LA.token = "MAIN" /\ variant # "sematic"

\* the name and the scope that call is given
InsName ==
  CASE Frame("init_declarator_add") -> id.lexeme
    [] Frame("param_add") -> pid.lexeme
    [] OTHER -> "main"

InsScope ==
  CASE Frame("init_declarator_add") -> cur_scope
    [] Frame("param_add") -> "Main"
    [] OTHER -> "Global"

Has(tab, name, scope) ==
  \E i \in 1..Len(tab) : tab[i].lexeme = name /\ tab[i].scope = scope

\* C1: an insert of a (name, scope) pair the table already holds reports
\* exactly one "Multiple declarations of same identifier.", adds one to the
\* error counter and leaves the table as it is; the file "int x; int x;
\* int main(void) { }" ends with one diagnostic and one x.
C1_DuplicateReported ==
  [][/\ (Typed /\ Inserting /\ Has(symtab, InsName, InsScope))
          => /\ Len(out') = 1
             /\ out'[1].msg = DupMsg
             /\ error_count' = error_count + 1
             /\ symtab' = symtab
     /\ (Typed /\ input = "ex_dup" /\ Done')
          => /\ error_count' = 1
             /\ Cardinality({i \in 1..Len(symtab') :
                               symtab'[i].lexeme = "x"}) = 1]_vars

\* C2: no two entries of the symbol table share (name, scope).
C2_NoDuplicates ==
  \A i, j \in 1..Len(symtab) :
    (symtab[i].lexeme = symtab[j].lexeme /\ symtab[i].scope = symtab[j].scope)
      => i = j

\* C3: lookup_symbol returns an entry of the current scope when there is one,
\* otherwise an entry of scope Global when there is one, otherwise nothing;
\* so in main's body a Main-scope x shadows a global x and a reference to x
\* has the type of the Main-scope x.
C3_Lookup ==
  [][/\ Typed
          => \A n \in Names :
               LET r == lookup_symbol(symtab', cur_scope', n) IN
               IF \E i \in 1..Len(symtab') :
                    symtab'[i].lexeme = n /\ symtab'[i].scope = cur_scope'
               THEN r # 0 /\ symtab'[r].lexeme = n
                           /\ symtab'[r].scope = cur_scope'
               ELSE IF \E i \in 1..Len(symtab') :
                         symtab'[i].lexeme = n /\ symtab'[i].scope = "Global"
               THEN r # 0 /\ symtab'[r].lexeme = n
                           /\ symtab'[r].scope = "Global"
               ELSE r = 0
     /\ (Typed /\ Frame("expression_if_any") /\ LA.token = "IDENTIFIER"
          /\ cur_scope = "Main")
          => \A i \in 1..Len(symtab) :
               (symtab[i].lexeme = LA.lexeme /\ symtab[i].scope = "Main")
                 => cur_type' = str_to_type(symtab[i].type)
     /\ (Typed /\ input = "ex_shadow" /\ Done') => error_count' = 0]_vars

\* the file "char x; int main(int x) { x = 2; }" has been analysed: both x
\* are in the table and the reference to x was typed Int, not Char
C3_Witness ==
  /\ variant = "semantic" /\ input = "ex_shadow" /\ Done
  /\ \E i, j \in 1..Len(symtab) :
       /\ symtab[i] = Sym("x", "Char", "Global", 0)
       /\ symtab[j] = Sym("x", "Int", "Main", 0)
  /\ error_count = 0

\* C4: when function_def matches MAIN it inserts main, a Function of scope
\* Global, and at the end of the run the table holds exactly one such entry.
C4_MainInserted ==
  [][/\ (Typed /\ Frame("function_def") /\ LA.token = "MAIN")
          => \E i \in 1..Len(symtab') :
               /\ symtab'[i].lexeme = "main"
               /\ symtab'[i].type = "Function"
               /\ symtab'[i].scope = "Global"
     /\ (Typed /\ input \in Examples /\ Done')
          => Cardinality({i \in 1..Len(symtab') :
                            /\ symtab'[i].lexeme = "main"
                            /\ symtab'[i].type = "Function"
                            /\ symtab'[i].scope = "Global"}) = 1]_vars

\* labels under which the global declarations are parsed
InGlobals ==
  \E i \in 1..Len(stack) :
    stack[i] \in {"program", "global_decl_list", "program_type"}

\* labels under which main's block is parsed, from its { to its }
InBlock ==
  \E i \in 1..Len(stack) :
    stack[i] \in {"stmt_list_opt", "block_rbrace", "function_def_rbrace"}

\* C5: the scope register is Global at the start and throughout the global
\* declarations, Main throughout main's block, Global again once program()
\* has returned, whatever errors were reported, and never anything else.
C5_ScopeRegister ==
  /\ cur_scope \in {"Global", "Main"}
  /\ InGlobals => cur_scope = "Global"
  /\ InBlock => cur_scope = "Main"
  /\ (Frame("write_symbol_table") \/ Done) => cur_scope = "Global"

\* program() has returned after an error, having declared something in Main
C5_Witness ==
  /\ Frame("write_symbol_table")
  /\ error_count > 0
  /\ \E i \in 1..Len(symtab) : symtab[i].scope = "Main"
  /\ cur_scope = "Global"

\* the step reads a right operand and calls apply_binary_op
ApplyStep == Typed /\ Frame("expression_rhs") /\ is_operand(LA.token)

\* the type of that right operand
RhsType == operand(LA).type

\* C6: with an Error operand on either side apply_binary_op gives Error and
\* reports nothing, whatever the operator; the only diagnostic of the step
\* is the operand's own "Undeclared identifier.".
C6_ErrorAbsorbing ==
  [][(ApplyStep /\ (cur_type = TYPE_ERROR \/ RhsType = TYPE_ERROR))
       => /\ cur_type' = TYPE_ERROR
          /\ \A k \in 1..Len(out') : out'[k].msg = UndeclaredMsg
          /\ Len(out') = Len(operand(LA).out)
          /\ error_count' = error_count + Len(out')]_vars

\* "x = y + 2" with int x, char y: x = y has given Error, and Error + 2
\* has just been applied without a diagnostic
C6_Witness ==
  /\ Typed /\ input = "ex_mismatch"
  /\ Frame("expression_loop") /\ pos = 17
  /\ cur_type = TYPE_ERROR /\ out = <<>> /\ error_count = 1

\* C7: for = + - * / with two operands that are not Error, equal types give
\* that type and no diagnostic, different types give Error and exactly one
\* "Type mismatch in statement or expression.".
C7_ArithmeticAndAssign ==
  [][(/\ ApplyStep
      /\ op.token \in {"ASSIGN", "PLUS", "MINUS", "STAR", "SLASH"}
      /\ cur_type # TYPE_ERROR /\ RhsType # TYPE_ERROR)
       => IF cur_type = RhsType
          THEN cur_type' = cur_type /\ out' = <<>>
               /\ error_count' = error_count
          ELSE cur_type' = TYPE_ERROR
               /\ Len(out') = 1 /\ out'[1].msg = MismatchMsg
               /\ error_count' = error_count + 1]_vars

\* "x = y" with int x, char y has just been applied: one mismatch, Error
C7_Witness ==
  /\ Typed /\ input = "ex_mismatch"
  /\ Frame("expression_loop") /\ pos = 15
  /\ cur_type = TYPE_ERROR /\ out = <<Diag(3, MismatchMsg)>>
  /\ error_count = 1

\* C8: for < > == with two operands that are not Error, equal types give Int
\* and no diagnostic, different types give Error and exactly one
\* "Type mismatch in statement or expression.".
C8_Relational ==
  [][(/\ ApplyStep
      /\ op.token \in {"LT", "GT", "EQ"}
      /\ cur_type # TYPE_ERROR /\ RhsType # TYPE_ERROR)
       => IF cur_type = RhsType
          THEN cur_type' = TYPE_INT /\ out' = <<>>
               /\ error_count' = error_count
          ELSE cur_type' = TYPE_ERROR
               /\ Len(out') = 1 /\ out'[1].msg = MismatchMsg
               /\ error_count' = error_count + 1]_vars

\* "y < y" with char y has just been applied, in the middle clause of the
\* for of "for (y = y; y < y; y > 2)": the result is Int
C8_Witness ==
  /\ Typed /\ input = "ex_for"
  /\ Frame("expression_loop") /\ pos = 18
  /\ cur_type = TYPE_INT /\ out = <<>> /\ error_count = 0

\* the callers of expression_if_any, at the point where it has returned
ExprCallers ==
  {"expr_stmt_expr", "if_cond", "while_cond", "for_init", "for_cond",
   "for_incr"}

\* C9: once the type of an expression is Error it stays Error to the end of
\* the expression, and neither "Type mismatch" nor "Integer expected" is
\* reported for it any more; "int x; char y; x = y + 2;" yields exactly one
\* diagnostic.
C9_ErrorStaysError ==
  [][/\ (/\ Typed /\ cur_type = TYPE_ERROR
          /\ (Frame("expression_loop") \/ Frame("expression_rhs")))
          => /\ cur_type' = TYPE_ERROR
             /\ \A k \in 1..Len(out') :
                  out'[k].msg \notin {MismatchMsg, IntExpectedMsg}
     /\ (/\ Typed /\ cur_type = TYPE_ERROR /\ ret = 1
          /\ stack # <<>> /\ Head(stack) \in ExprCallers)
          => \A k \in 1..Len(out') :
               out'[k].msg \notin {MismatchMsg, IntExpectedMsg}
     /\ (Typed /\ input = "ex_mismatch" /\ Done') => error_count' = 1]_vars

\* "int x; char y; int main(void) { x = y + 2; }" has been analysed
C9_Witness ==
  /\ Typed /\ input = "ex_mismatch" /\ Done
  /\ error_count = 1 /\ pos = Len(Opening("ex_mismatch"))

\* where parsing goes on after a condition
AfterCondition(l) ==
  CASE l = "if_cond" -> "if_rparen"
    [] l = "while_cond" -> "while_rparen"
    [] l = "for_cond" -> "for_semi2"

\* C10: a condition of if, while or the middle clause of for whose type is
\* Char reports exactly one "Integer expected in conditional expression." on
\* the line of the lookahead token; Int and Error report nothing; the first
\* and third clauses of for are not checked; parsing goes on with the next
\* token; "char y; while (y) { }" yields the diagnostic once and the body is
\* parsed.
C10_ConditionMustBeInt ==
  [][/\ \A l \in {"if_cond", "while_cond", "for_cond"} :
          (Typed /\ Frame(l) /\ ret = 1)
            => /\ IF cur_type = TYPE_CHAR
                  THEN out' = <<Diag(LA.line, IntExpectedMsg)>>
                       /\ error_count' = error_count + 1
                  ELSE cur_type \in {TYPE_INT, TYPE_ERROR}
                       /\ out' = <<>> /\ error_count' = error_count
               /\ stack' = <<AfterCondition(l)>> \o Tail(stack)
               /\ pos' = pos /\ toks' = toks
     /\ \A l \in {"for_init", "for_incr", "expr_stmt_expr"} :
          (Typed /\ Frame(l) /\ ret = 1)
            => out' = <<>> /\ error_count' = error_count
     /\ (Typed /\ input = "ex_while" /\ Done')
          => error_count' = 1 /\ pos' = Len(Opening("ex_while"))
     /\ (Typed /\ input = "ex_for" /\ Done')
          => error_count' = 1 /\ pos' = Len(Opening("ex_for"))]_vars

\* "while (y)" with char y: the diagnostic has just been reported on the
\* line of ")", which is the next token to be matched
C10_Witness ==
  /\ Typed /\ input = "ex_while"
  /\ Frame("while_rparen") /\ LA.token = "RPAREN"
  /\ out = <<Diag(3, IntExpectedMsg)>> /\ error_count = 1

\* the step reads an operand, the first of an expression or a right one
FirstOperandStep ==
  Typed /\ Frame("expression_if_any") /\ is_operand(LA.token)

\* the identifier has an entry in the current scope or in Global
Resolves(n) == Has(symtab, n, cur_scope) \/ Has(symtab, n, "Global")

\* the declared type of the entry the identifier resolves to
DeclaredType(n) ==
  LET sc == IF Has(symtab, n, cur_scope) THEN cur_scope ELSE "Global"
      i == CHOOSE k \in 1..Len(symtab) :
             symtab[k].lexeme = n /\ symtab[k].scope = sc
  IN symtab[i].type

\* the type an operand token is to have: Int and Char for the constants and
\* for identifiers declared so, Error for an identifier that is not declared
\* or is declared with another type
OperandType(t) ==
  CASE t.token = "INT_CONST" -> TYPE_INT
    [] t.token = "CHAR_CONST" -> TYPE_CHAR
    [] t.token = "IDENTIFIER" /\ Resolves(t.lexeme)
         /\ DeclaredType(t.lexeme) = "Int" -> TYPE_INT
    [] t.token = "IDENTIFIER" /\ Resolves(t.lexeme)
         /\ DeclaredType(t.lexeme) = "Char" -> TYPE_CHAR
    [] OTHER -> TYPE_ERROR

\* the diagnostic an operand token is to raise
OperandDiag(t) ==
  IF t.token = "IDENTIFIER" /\ ~Resolves(t.lexeme)
  THEN <<Diag(t.line, UndeclaredMsg)>>
  ELSE <<>>

\* the name of a type code
TypeName(c) ==
  CASE c = TYPE_INT -> "Int" [] c = TYPE_CHAR -> "Char" [] OTHER -> "Error"

\* C11 as stated: an identifier that resolves yields the declared type of
\* its symbol, whatever that type is.
C11_DeclaredTypeAsStated ==
  [][(FirstOperandStep /\ LA.token = "IDENTIFIER" /\ Resolves(LA.lexeme))
       => /\ TypeName(cur_type') = DeclaredType(LA.lexeme)
          /\ out' = <<>>]_vars

\* C11: for each operand, an identifier that does not resolve yields Error
\* and exactly one "Undeclared identifier." on the identifier's line; one
\* that resolves yields Int when declared Int, Char when declared Char and
\* Error when declared otherwise (Void), and reports nothing; INT_CONST
\* yields Int and CHAR_CONST yields Char, with no diagnostic.
C11_Operands ==
  [][/\ FirstOperandStep
          => /\ cur_type' = OperandType(LA)
             /\ out' = OperandDiag(LA)
             /\ error_count' = error_count + Len(OperandDiag(LA))
     /\ ApplyStep
          => LET r == apply_binary_op(op.token, cur_type, OperandType(LA),
                                      op.line)
             IN /\ cur_type' = r.type
                /\ out' = OperandDiag(LA) \o r.out
                /\ error_count' = error_count + Len(out')]_vars

\* an identifier that is not declared has just been read as an operand
C11_Witness ==
  /\ Typed /\ Frame("expression_loop")
  /\ cur_type = TYPE_ERROR /\ error_count = 1
  /\ \A n \in Names : ~Resolves(n)
  /\ \E ln \in 1..MaxLine : out = <<Diag(ln, UndeclaredMsg)>>

\* the step calls syn_error: it reports, and the skip of the line begins
SynErrorStep ==
  /\ ~Frame("skip_line_tokens")
  /\ stack' # <<>> /\ Head(stack') = "skip_line_tokens"

\* C12: syn_error reports exactly one diagnostic on the line of the
\* lookahead token and adds one to the error counter; then pos advances
\* over the tokens of that line only, up to the first token of another line
\* or to the end of the stream; a token of a later line is never discarded,
\* and at the end of the stream pos does not move.
C12_SynError ==
  [][/\ SynErrorStep
          => /\ Len(out') = 1 /\ out'[1].line = LA.line
             /\ error_count' = error_count + 1
             /\ skipline' = LA.line
             /\ pos' = pos /\ toks' = toks
     /\ Frame("skip_line_tokens")
          => /\ out' = <<>> /\ error_count' = error_count
             /\ IF LA.token # "EOF" /\ LA.line = skipline
                THEN pos' = pos + 1 /\ stack' = stack
                ELSE pos' = pos /\ toks' = toks /\ stack' = Tail(stack)]_vars

\* after one syntax error the tokens of its line have been skipped and the
\* first token of a later line is the lookahead
C12_Witness ==
  /\ variant = "sematic" /\ Frame("skip_line_tokens")
  /\ error_count = 1 /\ prevline = skipline
  /\ LA.token # "EOF" /\ LA.line > skipline

\* token files that are sentences of the grammar, with every identifier
\* declared before use, no name declared twice in a scope, operands of
\* equal types everywhere and Int conditions; their parameter lists are
\* VOID, typed and empty
ValidPrograms == {"ex_min", "ex_shadow", "ex_valid", "ex_empty"}

\* C13: after the full run of a valid program the error counter is 0.
C13_ValidProgramsNoErrors ==
  (Typed /\ input \in ValidPrograms /\ Done) => error_count = 0

\* C14: the program "int main(void) { }" runs with no diagnostic and leaves
\* a symbol table of exactly one entry: main, Function, Global.
C14_MinimalProgram ==
  (input = "ex_min" /\ Done)
    => /\ error_count = 0
       /\ Len(symtab) = 1
       /\ symtab[1].lexeme = "main"
       /\ symtab[1].type = "Function"
       /\ symtab[1].scope = "Global"

\* C16: the error counter of the parser never decreases and is never reset:
\* a step leaves it unchanged or adds exactly one, and it adds one exactly
\* when the step prints a diagnostic.
C16_CounterMonotone ==
  [][/\ error_count' \in {error_count, error_count + 1}
     /\ (error_count' = error_count + 1) <=> (Len(out') = 1)
     /\ Len(out') <= 1]_vars

\* a second diagnostic has just been counted
C16_Witness == error_count = 2 /\ Len(out) = 1

\* C17: the symbol table only grows: a step never removes or changes an
\* entry, and adds at most one, at the end, only when it inserts a
\* declarator, a parameter or main.
C17_AppendOnly ==
  [][/\ Len(symtab') >= Len(symtab)
     /\ SubSeq(symtab', 1, Len(symtab)) = symtab
     /\ symtab' # symtab
          => Inserting /\ Len(symtab') = Len(symtab) + 1]_vars

\* the table is written with four entries, the first inserted still first
C17_Witness ==
  /\ Frame("write_symbol_table") /\ input = "shadow"
  /\ Len(symtab) = 4
  /\ symtab[1] = Sym("x", "Char", "Global", 0)
  /\ symtab[3] = Sym("main", "Function", "Global", 0)
  /\ symtab[4] = Sym("x", "Int", "Main", 0)

----------------------------------------------------------------------------
(* Properties of the tokenizer *)

\* the tokenizer keeps running until main returns
FairSpecLex == SpecLex /\ WF_vars(NextLex)

\* the last tokenizer step wrote a diagnostic with this message
Reported(msg) == \E i \in 1..Len(stderr) : stderr[i].msg = msg

\* C18: a comment is opened on the line its "/*" stands on and keeps that line
\* while it is scanned; when the input ends inside it, that step writes exactly
\* one "Un-terminated comments" diagnostic tagged with this line and no token,
\* the rows already in tokens.txt stay, nothing else ever writes this diagnostic,
\* and the step after it ends the tokenizer without a token or a diagnostic:
\* the tokenizer always terminates once the diagnostic is written.
C18_UnterminatedComment ==
  /\ [][/\ (pc = "slash" /\ pc' = "comment") => start_line' = line_no
        /\ (pc = "comment") => start_line' = start_line
        /\ (pc = "comment" /\ pc' = "main") =>
             /\ stderr' = <<Diag(start_line, UnterminatedMsg)>>
             /\ emitted' = <<>>
             /\ rows' = rows
        /\ Reported(UnterminatedMsg)' => (pc = "comment" /\ unread' = 0 /\ pushback' = <<>>)
        /\ Reported(UnterminatedMsg) =>
             (pc' = "done" /\ emitted' = <<>> /\ stderr' = <<>> /\ rows' = rows)
        /\ rows' >= rows]_vars
  /\ (Reported(UnterminatedMsg) ~> pc = "done")

\* C18 witness: the input ends inside a comment that starts on line 2, after one
\* token of line 1.
C18_Witness ==
  /\ pc = "main"
  /\ stderr = <<Diag(2, UnterminatedMsg)>>
  /\ line_no = 3
  /\ rows = 1
  /\ emitted = <<>>

\* scan_string is running
InString == pc \in {"scan_string", "scan_string_escape"}

\* C19: while a string literal is scanned, its start line is the line the
\* tokenizer is on; a step that reads a newline or the end of the input ends
\* the literal with exactly one "String constants exceed line" diagnostic tagged
\* with the start line and no token; a step that reads an unescaped quote ends
\* it with exactly one STRING_CONST row whose lexeme is the text between the
\* quotes, every escape kept as its two characters, and no diagnostic; every
\* other step, a quote after a backslash included, stays in the literal and
\* writes nothing.
C19_StringLiteral ==
  [][InString =>
       /\ start_line = line_no
       /\ IF last' \in {EOFc, "\n"}
          THEN /\ stderr' = <<Diag(start_line, StringMsg)>>
               /\ emitted' = <<>>
               /\ ~InString'
          ELSE IF pc = "scan_string" /\ last' = "\""
          THEN /\ emitted' = <<Tok("STRING_CONST", Str(text), start_line)>>
               /\ stderr' = <<>>
               /\ ~InString'
          ELSE /\ emitted' = <<>>
               /\ stderr' = <<>>
               /\ InString']_vars

\* scan_char is running and has not yet found the literal too long
InChar == pc \in {"scan_char", "scan_char_escape", "scan_char_escape_end", "scan_char_end"}

\* the characters that end the skipping after a character constant that is too long
EndsSkip == {"'", "\n", EOFc}

\* C20: while a character literal is scanned its start line is the line the
\* tokenizer is on.  The step that reads the closing quote right after one
\* character, or after one backslash and one character, writes exactly one
\* CHAR_CONST row with that text and the start line, and no diagnostic.  The
\* steps that read the first character, the backslash or the escaped character
\* write nothing.  Every other step of a literal (a quote or a newline or the
\* end of the input as first character, a newline or the end of the input after
\* the backslash, anything but a quote after the character) writes exactly one
\* "Char constant too long" diagnostic tagged with the start line and no row,
\* and the tokenizer then skips up to and including the next quote, newline or
\* end of the input, writing nothing, before it scans again.
C20_CharLiteral ==
  [][/\ InChar =>
          /\ start_line = line_no
          /\ IF pc \in {"scan_char_end", "scan_char_escape_end"} /\ last' = "'"
             THEN /\ emitted' = <<Tok("CHAR_CONST", Str(text), start_line)>>
                  /\ \/ Len(text) = 1 /\ text[1] \notin {"'", "\n", "\\"}
                     \/ Len(text) = 2 /\ text[1] = "\\" /\ text[2] # "\n"
                  /\ stderr' = <<>>
                  /\ pc' = "skip_ws_and_comments"
             ELSE IF \/ pc = "scan_char" /\ last' \notin {"'", "\n", EOFc}
                     \/ pc = "scan_char_escape" /\ last' \notin {"\n", EOFc}
             THEN /\ emitted' = <<>>
                  /\ stderr' = <<>>
                  /\ InChar'
             ELSE /\ emitted' = <<>>
                  /\ stderr' = <<Diag(start_line, CharMsg)>>
                  /\ pc' = IF last' \in EndsSkip \/ pc \in {"scan_char", "scan_char_escape"}
                           THEN "skip_ws_and_comments" ELSE "scan_char_skip"
     /\ pc = "scan_char_skip" =>
          /\ emitted' = <<>>
          /\ stderr' = <<>>
          /\ pc' = IF last' \in EndsSkip THEN "skip_ws_and_comments" ELSE "scan_char_skip"
     /\ (Reported(CharMsg)' \/ \E i \in 1..Len(emitted') : emitted'[i].token = "CHAR_CONST")
          => InChar]_vars

\* C20 witness: the literal of an escaped quote, on line 2, has just been emitted.
C20_Witness ==
  /\ pc = "skip_ws_and_comments"
  /\ emitted = <<Tok("CHAR_CONST", "\\'", 2)>>
  /\ stderr = <<>>
  /\ last = "'"

\* C15: every step adds to the error counter the number of "Line <n>: ..."
\* diagnostics it writes, the tokenizer's as well as the parser's, so that the
\* counter, which the final summary prints, is the number of diagnostics written.
C15_SharedCounter ==
  [][error_count' = error_count + Len(stderr') + Len(out')]_vars

\* the character starts none of main's token rules
StartsNoRule(c) ==
  /\ c # EOFc
  /\ ~is_ident_start(c) /\ ~isdigit(c)
  /\ c \notin {"\"", "'", "="}
  /\ c \notin DOMAIN SingleCharToken

\* C21: when main reads a character that starts no token rule, that step writes
\* exactly one "Undefined symbol" diagnostic tagged with the line the tokenizer
\* is on, and no row; the tokenizer then reads on up to and including the next
\* newline (or the end of the input), writing no row and no diagnostic and
\* leaving the rows of tokens.txt as they are, and scans again with the
\* character after that newline; nothing else writes this diagnostic.
C21_UndefinedSymbol ==
  [][/\ (pc = "main" /\ StartsNoRule(last')) =>
          /\ stderr' = <<Diag(line_no, UndefinedMsg)>>
          /\ emitted' = <<>>
          /\ rows' = rows
          /\ pc' = "skip_line_after_error"
     /\ pc = "skip_line_after_error" =>
          /\ stderr' = <<>>
          /\ emitted' = <<>>
          /\ rows' = rows
          /\ IF last' \in {"\n", EOFc}
             THEN pc' = "skip_ws_and_comments" /\ pushback' = <<>>
             ELSE pc' = "skip_line_after_error" /\ line_no' = line_no
     /\ Reported(UndefinedMsg)' => (pc = "main" /\ StartsNoRule(last'))]_vars

\* C21 witness: after a token and an undefined symbol on line 1, a letter of
\* the same line is being skipped.
C21_Witness ==
  /\ pc = "skip_line_after_error"
  /\ rows = 1
  /\ line_no = 1
  /\ last = "a"
  /\ unread > 0

\* the source line of the next character the tokenizer will read: one more than
\* the newline characters of the source file before it
SourceLine == 1 + filenl - Newlines(pushback)

\* C22: line_no is always the source line of the next character to read, a
\* newline that was read ahead and given back not counted; every row written
\* to tokens.txt carries the source line of the token's first character; and
\* that line never decreases from one token to the next.
C22_LineNumbers ==
  [][/\ line_no' = SourceLine'
     /\ \A i \in 1..Len(emitted') : emitted'[i].line = tokline'
     /\ tokline' >= tokline]_vars

\* C22 witness: an identifier of line 2 is emitted when the newline that ends
\* it, the second of the file, has been read and given back.
C22_Witness ==
  /\ emitted = <<Tok("IDENTIFIER", "a", 2)>>
  /\ pushback = <<"\n">>
  /\ filenl = 2
  /\ rows = 1

\* the token name of a word: the keyword its upper-cased text spells, if any
KindOf(word) ==
  IF Str(Upper(word)) \in Keywords THEN Str(Upper(word)) ELSE "IDENTIFIER"

\* C23: the step that ends an identifier-shaped word writes one row whose token
\* name is the keyword that the upper-cased word equals, or IDENTIFIER when it
\* equals none, and whose lexeme is the word as it stands in the source.
C23_Keywords ==
  [][(pc = "ident" /\ ~is_ident_part(last')) =>
       emitted' = <<Tok(KindOf(text), Str(text), line_no')>>]_vars

\* C24: the step after main has read a '=' writes one EQ row with lexeme "=="
\* when it reads another '=', and otherwise one ASSIGN row with lexeme "=",
\* giving back the character it read so that it is the next one scanned (at the
\* end of the input there is nothing to give back).  Counting the '=' of a run
\* as they are scanned, an EQ is written at every second one and an ASSIGN only
\* for an odd one that ends the run: n of them give n \div 2 EQ rows and then
\* n % 2 ASSIGN rows.
C24_AssignAndEq ==
  [][/\ pc = "assign" =>
          IF last' = "="
          THEN /\ emitted' = <<Tok("EQ", "==", line_no)>>
               /\ pushback' = <<>>
               /\ eqrun' % 2 = 0
          ELSE /\ emitted' = <<Tok("ASSIGN", "=", line_no)>>
               /\ pushback' = IF last' = EOFc THEN <<>> ELSE <<last'>>
               /\ eqrun' = eqrun
               /\ eqrun % 2 = 1
     /\ (\E i \in 1..Len(emitted') : emitted'[i].token \in {"EQ", "ASSIGN"}) => pc = "assign"
     /\ (pc = "main" /\ last' = "=") => (pc' = "assign" /\ eqrun' % 2 = 1 /\ emitted' = <<>>)]_vars

\* C24 witness: the third '=' of a run of three has been written as ASSIGN,
\* after the EQ of the first two, with a ';' given back.
C24_Witness ==
  /\ emitted = <<Tok("ASSIGN", "=", 1)>>
  /\ eqrun = 3
  /\ rows = 2
  /\ pushback = <<";">>

----------------------------------------------------------------------------
(* Properties of declarations, parameters and capacity *)

\* init_declarator is between its IDENTIFIER and its add_symbol
InDeclarator ==
  \/ Frame("array_opt") \/ Frame("array_opt_size") \/ Frame("array_opt_rbracket")
  \/ Frame("init_opt") \/ Frame("init_opt_const")

\* C25: after the IDENTIFIER of an init_declarator, array_opt leaves 0 as the
\* array size when no '[' follows, the value of the INT_CONST when one stands
\* after the '[', and 0 when none does; nothing else changes the size, the name
\* or the type before add_symbol is called; that call is made for a matched
\* IDENTIFIER only and, unless the (name, scope) pair is in the table already
\* or the table is full, appends the name with the declaration's normalized
\* type, the scope register's scope and that size; an init_declarator without
\* IDENTIFIER leaves the table alone and calls nothing.
C25_InitDeclarator ==
  [][/\ (Frame("array_opt") /\ LA.token # "LBRACKET") => arrsz' = 0
     /\ Frame("array_opt_size") =>
          arrsz' = IF LA.token = "INT_CONST" THEN atoi(LA.lexeme) ELSE 0
     /\ (InDeclarator /\ ~Frame("array_opt") /\ ~Frame("array_opt_size")) => arrsz' = arrsz
     /\ InDeclarator => (id' = id /\ typestr' = typestr /\ symtab' = symtab)
     /\ Frame("init_declarator_add") =>
          /\ id.token = "IDENTIFIER"
          /\ typestr \in {"Void", "Char", "Int"}
          /\ symtab' = IF Has(symtab, id.lexeme, cur_scope) \/ Len(symtab) >= MAXSYM
                       THEN symtab
                       ELSE Append(symtab, Sym(id.lexeme, typestr, cur_scope, arrsz))
     /\ (Frame("init_declarator") /\ LA.token # "IDENTIFIER") =>
          (symtab' = symtab /\ ~Frame("init_declarator_add")' /\ ~InDeclarator')]_vars

\* C26: in the programs with a parameter loop, a matched type_specifier leaves
\* the parameter's normalized type, and the IDENTIFIER after it keeps that
\* type; add_symbol is called for a parameter only with a matched IDENTIFIER
\* and a normalized type, and appends the name in scope Main with that type and
\* array size 0 unless the pair is in the table already or the table is full;
\* a parameter whose type_specifier or IDENTIFIER is missing leads to the ')'
\* without that call; and a parameter list that is VOID or empty leads to the
\* ')' with no symbol and no diagnostic.
C26_Parameters ==
  [][Typed =>
       /\ (Frame("param_type") /\ is_type_token(LA.token)) =>
            (pty' = norm_type_token(LA.token) /\ symtab' = symtab)
       /\ (Frame("param_id") /\ LA.token = "IDENTIFIER") =>
            (pty' = pty /\ pid' = LA /\ symtab' = symtab)
       /\ Frame("param_add") =>
            /\ pid.token = "IDENTIFIER"
            /\ pty \in {"Void", "Char", "Int"}
            /\ symtab' = IF Has(symtab, pid.lexeme, "Main") \/ Len(symtab) >= MAXSYM
                         THEN symtab
                         ELSE Append(symtab, Sym(pid.lexeme, pty, "Main", 0))
       /\ (\/ Frame("param_type") /\ ~is_type_token(LA.token)
           \/ Frame("param_id") /\ LA.token # "IDENTIFIER") =>
            (symtab' = symtab /\ ~Frame("param_id")' /\ ~Frame("param_add")')
       /\ (Frame("function_def_params") /\ LA.token \in {"VOID", "RPAREN"}) =>
            /\ symtab' = symtab
            /\ out' = <<>>
            /\ ~Frame("param_type")']_vars

----------------------------------------------------------------------------
(* Properties of the token loaders *)

\* a row of three fields: kind, lexeme, integer line
WellFormed(row) == Len(row) = 3 /\ IsInt(row[3])

\* the tokens of the well-formed rows, in the order of the rows
RECURSIVE TokensOf(_)
TokensOf(lines) ==
  IF lines = <<>> THEN <<>>
  ELSE (IF WellFormed(Head(lines))
        THEN <<Tok(Head(lines)[1], Head(lines)[2], atoi(Head(lines)[3]))>>
        ELSE <<>>) \o TokensOf(Tail(lines))

\* C28: a token file within the capacity of the stream loads as the tokens of
\* exactly its well-formed rows, in order, every other row skipped, and it
\* loads the same with its header row as without it
C28_Loader ==
  Len(TokensOf(tokfile)) <= MAXTOK =>
    /\ \A h \in BOOLEAN : loaded[h].ran => loaded[h].toks = TokensOf(tokfile)
    /\ loaded[TRUE].ran /\ loaded[FALSE].ran => loaded[TRUE].toks = loaded[FALSE].toks

----------------------------------------------------------------------------
(* Properties of the capacity limits *)

\* the rows of the opened file up to the k-th
UpTo(h, k) == SubSeq(File(h), 1, k)

\* C27: the table never holds more than MAXSYM entries and the stream never
\* more than MAXTOK tokens; an insert of a new (name, scope) into a full table
\* changes nothing and reports nothing; once the stream is full the rest of
\* the file loads nothing, and no load reports anything or counts an error
C27_Capacity ==
  /\ [](Len(symtab) <= MAXSYM)
  /\ [](\A h \in BOOLEAN : Len(loaded[h].toks) <= MAXTOK)
  /\ [][Inserting /\ Len(symtab) = MAXSYM /\ ~Has(symtab, InsName, InsScope)
          => symtab' = symtab /\ out' = <<>> /\ error_count' = error_count]_vars
  /\ [][\A h \in BOOLEAN : \A k \in 0..Len(File(h)) :
          loaded'[h].ran /\ Len(Load(UpTo(h, k))) = MAXTOK
            => loaded'[h].toks = Load(UpTo(h, k))]_vars
  /\ [][load_tokens => UNCHANGED <<out, stderr, error_count>>]_vars

\* a full table is offered one more new name
C27_Witness ==
  /\ Inserting /\ Len(symtab) = MAXSYM /\ ~Has(symtab, InsName, InsScope)

\* a file with more well-formed rows than the stream holds has been loaded
StreamFull ==
  /\ \E h \in BOOLEAN : loaded[h].ran /\ Len(loaded[h].toks) = MAXTOK
  /\ Len(TokensOf(tokfile)) > MAXTOK

----------------------------------------------------------------------------
(* Termination *)

\* main is one sequential process: a parser that can take a step takes it
FairSpec == Spec /\ WF_vars(Next)

\* C29: whatever the token stream and however many errors were reported,
\* program() returns, main writes the symbol table and the summary, and the
\* run stays in its final state
C29_Terminates ==
  /\ <>Done
  /\ [][~Done /\ Done' => stack = <<"write_symbol_table">>]_vars

\* a run that reported three errors or more and entered a symbol has written
\* its table and its summary
C29_Witness == Done /\ error_count >= 3 /\ symtab # <<>>

----------------------------------------------------------------------------
(* Determinism *)

\* the pipeline: a run of the tokenizer, a run of a parser
SpecPipeline == (InitLex \/ Init) /\ [][NextLex \/ Next]_vars

\* what a step has read of its input file: the tokens of tokens.txt in the
\* window and behind it, the character of the source file
Read == <<toks, ahead, more, last>>

\* C30: two runs on the same input agree step by step: the state a step
\* leaves (rows written, symbol table, diagnostics, error_count) is fixed by
\* the state before it and by what it read
C30_Deterministic ==
  [][\A after \in {vars'} : \A read \in {Read'} :
       ~ENABLED ((NextLex \/ Next) /\ Read' = read /\ vars' # after)]_vars

----------------------------------------------------------------------------
(* Properties of the lookahead, of expressions and of initializers *)

\* the token after the lookahead, as a step of global_decl_list saw it
Peeked == toks'[Len(toks')]

\* C31: global_decl_list returns exactly when the lookahead is no type token,
\* or is a type token followed by MAIN; after the peek at MAIN pos is back on
\* the type token, still within the stream, and no symbol was inserted; any
\* other type token is consumed and its declaration parsed
C31_GlobalDeclList ==
  [][Frame("global_decl_list") =>
       /\ symtab' = symtab /\ out' = <<>>
       /\ pos >= 0 /\ pos' >= 0
       /\ IF ~is_type_token(LA.token)
          THEN stack' = Tail(stack) /\ pos' = pos /\ toks' = toks
          ELSE IF Peeked.token = "MAIN"
          THEN stack' = Tail(stack) /\ pos' = pos /\ Head(toks') = LA /\ LA.token # "EOF"
          ELSE stack' = Declaration \o stack /\ pos' = pos + 1]_vars

\* after a global declaration the loop has peeked at MAIN and gone back to
\* the type token before it
C31_Witness ==
  /\ Frame("program_type") /\ Len(toks) = 2 /\ toks[2].token = "MAIN"
  /\ is_type_token(LA.token) /\ pos > 0 /\ symtab # <<>>

\* C32: an expression is typed as a left fold: the first operand gives the
\* running type, every operator, `=` included, is held until its right
\* operand is read and is then applied to the running type and that
\* operand's type, and a type mismatch is tagged with the operator's line
C32_LeftFold ==
  [][/\ FirstOperandStep => cur_type' = operand(LA).type
     /\ (Typed /\ Frame("expression_loop") /\ is_operator(LA.token))
          => op' = LA /\ cur_type' = cur_type /\ out' = <<>>
     /\ ApplyStep =>
          /\ cur_type' = apply_binary_op(op.token, cur_type, RhsType, op.line).type
          /\ \A k \in 1..Len(out') :
               out'[k].msg = MismatchMsg => out'[k].line = op.line
          /\ (\E k \in 1..Len(out') : out'[k].msg = MismatchMsg)
               <=> (cur_type # TYPE_ERROR /\ RhsType # TYPE_ERROR /\ cur_type # RhsType)]_vars

\* "y < y + x = y" with int x, char y, the `=` on line 4 and its right
\* operand on line 5: (y < y) + x is Int, and Int = Char has just been
\* reported once, on line 4
C32_Witness ==
  /\ Typed /\ input = "ex_fold"
  /\ Frame("expression_loop") /\ pos = 19
  /\ cur_type = TYPE_ERROR /\ out = <<Diag(4, MismatchMsg)>>
  /\ error_count = 1

\* a declarator's IDENTIFIER is not followed by '[': no size is given
NoSizeStep == Frame("array_opt") /\ LA.token # "LBRACKET"

\* a declarator's '[' is not followed by an INT_CONST: no size is given
EmptySizeStep == Frame("array_opt_size") /\ LA.token # "INT_CONST"

\* the size program v has in arrsz after array_opt found no '['
Unsized(v) == IF v = "semantic" THEN 0 ELSE arrsz_init(v)

\* the size the running program goes on to record is the one of Unsized
RecordsUnsized ==
  /\ NoSizeStep => arrsz' = Unsized(variant)
  /\ (Frame("init_opt") \/ Frame("init_opt_const")) => arrsz' = arrsz
  /\ (Frame("init_declarator_add") /\ Len(symtab') > Len(symtab))
       => symtab'[Len(symtab')].array_size = arrsz

\* C33 as stated: on a declarator with no size given semantic_analyser.c and
\* sematic_analyser.c record different sizes, 0 and -1
C33_AsStated ==
  [][RecordsUnsized /\ (NoSizeStep => Unsized("semantic") + Unsized("sematic") = -1)]_vars

\* C33: on a declarator with no size given semantic_analyser.c and
\* sematic_analyser.c record the same size, 0, without brackets and with
\* empty ones; syntax_analyser.c records -1 without brackets and 0 with
\* empty ones
C33_UnsizedArray ==
  [][/\ RecordsUnsized
     /\ NoSizeStep => arrsz' = IF Typed THEN 0 ELSE -1
     /\ NoSizeStep => Unsized("semantic") = 0 /\ Unsized("sematic") = 0 /\ Unsized("syntax") = -1
     /\ EmptySizeStep => arrsz' = 0]_vars

\* sematic_analyser.c has entered "int x" of "int x; char y;" with size 0
C33_Witness ==
  /\ variant = "sematic" /\ input = "ex_fold" /\ pos = 3
  /\ symtab = <<Sym("x", "Int", "Global", 0)>>

----------------------------------------------------------------------------
(* The round trip through tokens.txt *)

\* C34: the file the tokenizer wrote, header row first, loads as the tokens
\* emit was called with, in order, whatever their lexemes, as long as the
\* stream holds them all
C34_RoundTrip ==
  (loaded[TRUE].ran /\ Len(written) <= MAXTOK) => loaded[TRUE].toks = written

----------------------------------------------------------------------------
(* Properties of the end of the run *)

\* function_def is past main's block, or program() has returned to main
AfterMain == Frame("function_def_exit") \/ Frame("write_symbol_table")

\* C35: once function_def is past main's block, program() returns to main
\* and the run ends without another look at the stream: no token is
\* consumed, nothing is reported and error_count keeps its value, whatever
\* tokens follow
C35_TrailingTokens ==
  [][AfterMain =>
       /\ pos' = pos /\ toks' = toks /\ ahead' = ahead /\ more' = more
       /\ out' = <<>> /\ error_count' = error_count /\ symtab' = symtab
       /\ Frame("function_def_exit") => stack' = <<"write_symbol_table">>
       /\ Frame("write_symbol_table") => Done']_vars

\* a run has ended without an error and with a token after main's closing
\* brace still at pos
C35_Witness ==
  /\ Done /\ error_count = 0 /\ input = "main"
  /\ LA.token # "EOF" /\ pos > Len(MainVoid(1))

\* the token is an identifier whose symbol was declared with type Void
VoidOperand(t) ==
  t.token = "IDENTIFIER" /\ Resolves(t.lexeme) /\ DeclaredType(t.lexeme) = "Void"

\* C36: an identifier declared Void has type Error as first and as right
\* operand, and reading it reports nothing; an expression of type Error
\* that is a whole condition reports nothing either; so
\* "void v; while (v) { } v = v + 2;" ends with error_count 0
C36_VoidIdentifier ==
  [][/\ (FirstOperandStep /\ VoidOperand(LA))
          => cur_type' = TYPE_ERROR /\ out' = <<>> /\ error_count' = error_count
     /\ (ApplyStep /\ VoidOperand(LA))
          => cur_type' = TYPE_ERROR /\ out' = <<>> /\ error_count' = error_count
     /\ \A l \in {"if_cond", "while_cond", "for_cond"} :
          (Typed /\ Frame(l) /\ ret = 1 /\ cur_type = TYPE_ERROR)
            => out' = <<>> /\ error_count' = error_count
     /\ (Typed /\ input = "ex_void" /\ Done')
          => error_count' = 0 /\ pos' = Len(Opening("ex_void"))]_vars

\* "while (v)" with void v: the condition has been checked, without a
\* diagnostic
C36_Witness ==
  /\ Typed /\ input = "ex_void"
  /\ Frame("while_rparen") /\ LA.token = "RPAREN"
  /\ symtab[1] = Sym("v", "Void", "Global", 0)
  /\ out = <<>> /\ error_count = 0

\* the initializer constant at the lookahead and the declared type are
\* Int against Char or Char against Int
InitMismatch ==
  \/ LA.token = "INT_CONST" /\ typestr = "Char"
  \/ LA.token = "CHAR_CONST" /\ typestr = "Int"

\* the parser is at a declarator's initializer constant
AtInitConst == Frame("init_opt_const") /\ LA.token \in {"INT_CONST", "CHAR_CONST"}

\* C37: in semantic_analyser.c an initializer constant of the other type
\* reports one "Type mismatch" on the constant's line, an initializer of
\* the declared type or of a Void declaration reports nothing, and in both
\* cases the declarator is inserted next as without an initializer; the
\* other two parsers report nothing
C37_InitializerType ==
  [][/\ (variant = "semantic" /\ AtInitConst)
          => /\ out' = IF InitMismatch
                       THEN <<Diag(LA.line, MismatchMsg)>> ELSE <<>>
             /\ error_count' = error_count + (IF InitMismatch THEN 1 ELSE 0)
             /\ pos' = pos + 1
             /\ symtab' = symtab /\ typestr' = typestr /\ id' = id
             /\ stack' = Tail(stack) /\ Head(stack') = "init_declarator_add"
     /\ (variant # "semantic" /\ AtInitConst)
          => out' = <<>> /\ error_count' = error_count
     /\ (variant = "semantic" /\ Frame("init_declarator_add")
           /\ Entries(symtab, id.lexeme, cur_scope) = {} /\ Len(symtab) < MAXSYM)
          => /\ symtab' = Append(symtab, Sym(id.lexeme, typestr, cur_scope, arrsz))
             /\ out' = <<>>]_vars

\* "char x = 2": the mismatch has just been reported on the constant's
\* line and x is about to be inserted
C37_Witness ==
  /\ variant = "semantic" /\ Frame("init_declarator_add")
  /\ typestr = "Char" /\ id.lexeme = "x" /\ pos = 4
  /\ out = <<Diag(2, MismatchMsg)>> /\ error_count = 1
  /\ symtab = <<>>

====
